---- MODULE Spec2Model ----
(***************************************************************************)
(* Model of the sntpex_ti SNTP client (src/src/sntp_ex_lib_ti.c).          *)
(*                                                                         *)
(* Machine words are sequences of bytes, least significant byte first, so  *)
(* that 32- and 64-bit values keep their width: a uint32_t is a 4-tuple, a *)
(* uint64_t an 8-tuple.  The host is little-endian (the #else branch of    *)
(* _CPU_BIG_ENDIAN in struct x_sntp_request), so a word loaded from the    *)
(* payload has the wire bytes in the same order and SlNetUtil_ntohl /      *)
(* SlNetUtil_htonl reverse the bytes.                                      *)
(***************************************************************************)
EXTENDS Integers, Sequences, FiniteSets, TLC

(***************************************************************************)
(* Bounds of the model.                                                    *)
(***************************************************************************)
MaxCalls == 2
MaxAdvance == 1
PollTimeout == 3
MaxClock == 4

(***************************************************************************)
(* Fixed-width arithmetic on byte sequences (least significant first).     *)
(***************************************************************************)
U32(n) == << n % 256, (n \div 256) % 256, (n \div 65536) % 256, (n \div 16777216) % 256 >>

Zero32 == << 0, 0, 0, 0 >>

Zero64 == << 0, 0, 0, 0, 0, 0, 0, 0 >>

Ext64(w) == w \o Zero32

U64(n) == Ext64(U32(n))

RECURSIVE AddW(_, _, _)
AddW(a, b, carry) ==
  IF a = << >> THEN << >>
  ELSE LET s == Head(a) + Head(b) + carry
       IN  << s % 256 >> \o AddW(Tail(a), Tail(b), s \div 256)

RECURSIVE SubW(_, _, _)
SubW(a, b, borrow) ==
  IF a = << >> THEN << >>
  ELSE LET d == Head(a) - Head(b) - borrow
       IN  << d % 256 >> \o SubW(Tail(a), Tail(b), IF d < 0 THEN 1 ELSE 0)

RECURSIVE MulW(_, _, _)
MulW(a, k, carry) ==
  IF a = << >> THEN << >>
  ELSE LET p == Head(a) * k + carry
       IN  << p % 256 >> \o MulW(Tail(a), k, p \div 256)

RECURSIVE LessW(_, _)
LessW(a, b) ==
  IF a = << >> THEN FALSE
  ELSE LET n == Len(a)
       IN  IF a[n] # b[n] THEN a[n] < b[n]
           ELSE LessW(SubSeq(a, 1, n - 1), SubSeq(b, 1, n - 1))

(* uint32_t a + b and a - b, modulo 2^32 *)
Add32(a, b) == AddW(a, b, 0)

Sub32(a, b) == SubW(a, b, 0)

(***************************************************************************)
(* Byte order helpers and constants of the header.                         *)
(***************************************************************************)
(* a conversion that leaves the bytes in network order *)
exlibSLNETUTIL_NTOHL_Identity(v) == v

exlibSLNETUTIL_NTOHL(v) == << v[4], v[3], v[2], v[1] >>

(* a conversion that leaves the bytes in host order *)
exlibSLNETUTIL_HTONL_Identity(v) == v

exlibSLNETUTIL_HTONL(v) == << v[4], v[3], v[2], v[1] >>

exlibSNTP_CLIENT_DEFAULT_TIMEOUT == 3000

exlibSNTP_TIME_MESSAGE_MAX_SIZE == 68

(* a request as long as the payload buffer *)
SizeofRequest_MaxSize == exlibSNTP_TIME_MESSAGE_MAX_SIZE

(* sizeof( struct x_sntp_request ): 4 header bytes, 3 words, 4 timestamps *)
SizeofRequest == 4 + 3 * 4 + 4 * 8

(* 2208988800 = 0x83AA7E80, widened to 64 bits *)
exlibDIFF_SEC_1900_1970 == << 128, 126, 170, 131, 0, 0, 0, 0 >>

exlibSNTP_SOFTSR_RECV_BIT == 1

exlibSNTP_SOFTSR_SEND_BIT == 2

specNTP_VERSION_V4 == 4

specNTP_MODE_CLIENT == 3

specNTP_MODE_SERVER == 4

specNTP_MODE_BROADCAST == 5

(* uint8_t SR & ~bit and SR | bit on the two defined bits *)
ClearBit(sr, bit) == IF (sr \div bit) % 2 = 1 THEN sr - bit ELSE sr

SetBit(sr, bit) == IF (sr \div bit) % 2 = 1 THEN sr ELSE sr + bit

(***************************************************************************)
(* Timestamp converter.                                                    *)
(***************************************************************************)
(* ( fraction >> index ) & 0x3F *)
Segment(fraction, index) ==
  LET k  == (index \div 8) + 1
      lo == fraction[k]
      hi == IF k + 1 <= 4 THEN fraction[k + 1] ELSE 0
  IN  ((lo + 256 * hi) \div (2 ^ (index % 8))) % 64

(* the step without the shift of the previous accumulator *)
FracStep_Unshifted(value, segment) == value + segment * 15625

FracStep(value, segment) ==
  IF (value % 64) >= 32 THEN (value \div 64) + segment * 15625 + 1
                        ELSE (value \div 64) + segment * 15625

RECURSIVE FracLoop(_, _, _)
FracLoop(fraction, index, value) ==
  IF index < 32 THEN FracLoop(fraction, index + 6, FracStep(value, Segment(fraction, index)))
  ELSE value

(* the loop started at bit 0 instead of bit 2 *)
prv_utility_frac_to_usecs_FromBit0(fraction) == FracLoop(fraction, 0, 0)

prv_utility_frac_to_usecs(fraction) == FracLoop(fraction, 2, 0)

(* the subtraction and the multiplication done on 32 bits, then widened *)
prv_utility_ntp_to_epoch_Truncated(ulSeconds, ulFraction) ==
  AddW(Ext64(MulW(SubW(ulSeconds, SubSeq(exlibDIFF_SEC_1900_1970, 1, 4), 0), 1000000, 0)),
       U64(prv_utility_frac_to_usecs(ulFraction)), 0)

prv_utility_ntp_to_epoch(ulSeconds, ulFraction) ==
  AddW(MulW(SubW(Ext64(ulSeconds), exlibDIFF_SEC_1900_1970, 0), 1000000, 0),
       U64(prv_utility_frac_to_usecs(ulFraction)), 0)

(***************************************************************************)
(* Enumerations of the header.                                             *)
(***************************************************************************)
UD_SNTP_CLIENT_STATE_OPEN == 0

UD_SNTP_CLIENT_STATE_SENDING == 1

UD_SNTP_CLIENT_STATE_RECEIVING == 2

UD_SNTP_CLIENT_STATE_HANDLING_RSP == 3

UD_SNTP_CLIENT_STATE_CLOSE == 4

UD_SNTP_CLIENT_STATE_COMPLETE == 5

(* sntp_ud_t, by name *)
SNTPEX_SUCCESS == "SNTPEX_SUCCESS"

SNTPEX_ERROR == "SNTPEX_ERROR"

SNTPEX_ERR_SOCKET_CREATE == "SNTPEX_ERR_SOCKET_CREATE"

SNTPEX_ERR_SOCKET_SET_OPT == "SNTPEX_ERR_SOCKET_SET_OPT"

SNTPEX_ERR_FAULT_INIT == "SNTPEX_ERR_FAULT_INIT"

SNTPEX_ERR_NULL_PTR == "SNTPEX_ERR_NULL_PTR"

SNTPEX_ERR_RX == "SNTPEX_ERR_RX"

SNTPEX_ERR_TX == "SNTPEX_ERR_TX"

SNTPEX_ERR_REQUEST_REJECTED == "SNTPEX_ERR_REQUEST_REJECTED"

SNTPEX_ERR_INVALID_MESSAGE == "SNTPEX_ERR_INVALID_MESSAGE"

SNTPEX_ERR_TIMEOUT == "SNTPEX_ERR_TIMEOUT"

(* the build option of the header: poll a non-blocking socket *)
exlibSNTP_CLIENT_USE_NONBLOCKING_TIMEOUT_OPTION == TRUE

(***************************************************************************)
(* Data types.                                                             *)
(***************************************************************************)
(* NtpTimestamp: two 32-bit halves; .val == 0 iff both halves are 0 *)
NtpTimestamp(s, f) == [seconds |-> s, fraction |-> f]

ZeroTimestamp == NtpTimestamp(Zero32, Zero32)

(* struct x_sntp_request after memset 0 *)
ZeroRequest ==
  [li |-> 0, vn |-> 0, mode |-> 0, stratum |-> 0, poll |-> 0, precision |-> 0,
   rootDelay |-> Zero32, rootDispersion |-> Zero32, referenceId |-> Zero32,
   referenceTimestamp |-> ZeroTimestamp, originateTimestamp |-> ZeroTimestamp,
   receiveTimestamp |-> ZeroTimestamp, transmitTimestamp |-> ZeroTimestamp]

(* a caller's struct xTimestampCtx_t holding the word w everywhere *)
FilledTimestampCtx(w) ==
  [referenceTimestamp |-> NtpTimestamp(w, w), originateTimestamp |-> NtpTimestamp(w, w),
   receiveTimestamp |-> NtpTimestamp(w, w), transmitTimestamp |-> NtpTimestamp(w, w),
   originate64_ts |-> w \o w, reference64_ts |-> w \o w,
   receive64_ts |-> w \o w, transmit64_ts |-> w \o w]

(* sntpex_client_handle_t of a zero-initialised static object *)
ZeroClient ==
  [sock |-> "NULL", vtable_api |-> "NULL", timeout |-> 0, startTime |-> Zero32,
   state |-> UD_SNTP_CLIENT_STATE_OPEN, payload |-> ZeroRequest, payloadLen |-> 0,
   kissCode |-> Zero32, xTimestampList |-> "NULL", expected_orig_ts |-> Zero32]

(* struct vsocket after memset 0; rcv_timeo is not a member of the struct: *)
(* it is the receive timeout, in ms, that the stack holds for the          *)
(* descriptor once SLNETSOCK_OPSOCK_RCV_TIMEO was set, 0 when it never was *)
ZeroSocket ==
  [fd |-> 0, tv_sec |-> 0, tv_usec |-> 0, sa_family |-> "AF_UNSPEC", InAddLength |-> "0",
   rcv_timeo |-> 0]

(* struct ux_sntpAsynchEvent, zero-initialised *)
ZeroEvent == [timestamp |-> Zero64, event_cb |-> "NULL", SR |-> 0]

(***************************************************************************)
(* Inputs of the environment.                                              *)
(***************************************************************************)
(* timeouts the application passes to sntpex_SetClientTimeout, in ms *)
TimeoutChoices == {1}

(* address families the application passes to set_server_address *)
Families == {"AF_INET", "AF_OTHER"}

(* increments of the OS tick between two steps of the task, in ms *)
TickSteps == {1}

(* first value of the OS tick: one tick before the 32-bit counter wraps *)
InitTicks == {<< 255, 255, 255, 255 >>}

(* negative values SlNetSock_create returns on failure *)
CreateFailCodes == {-1, -2}

(* lengths of the datagrams that are shorter than a request *)
ShortLengths == {0, SizeofRequest - 1}

(* the canary a caller's record holds before its first use *)
Canary == << 170, 170, 170, 170 >>

(* server timestamps of the replies: 1970-01-01 00:00:01.5 and 00:00:02.0 *)
ServerT2 == NtpTimestamp(<< 131, 170, 126, 129 >>, << 128, 0, 0, 0 >>)

ServerT3 == NtpTimestamp(<< 131, 170, 126, 130 >>, Zero32)

ServerRef == NtpTimestamp(<< 131, 170, 126, 128 >>, Zero32)

(* the reference identifier 'R','A','T','E' as the host loads it *)
RefIdRATE == << 82, 65, 84, 69 >>

(* originate timestamps of a reply: the echo of the request, the echo with *)
(* non-zero seconds, and the echo of another request                       *)
Originates(nonce) ==
  { NtpTimestamp(Zero32, exlibSLNETUTIL_HTONL(nonce)),
    NtpTimestamp(U32(1), exlibSLNETUTIL_HTONL(nonce)),
    NtpTimestamp(Zero32, exlibSLNETUTIL_HTONL(Add32(nonce, U32(1)))) }

(* every reply a server (or an attacker) may send to a request with this nonce: *)
(* each header field and each timestamp the validation reads, good or bad       *)
Replies(nonce) ==
  { [ZeroRequest EXCEPT !.vn = v, !.mode = m, !.stratum = st,
       !.referenceId = RefIdRATE, !.referenceTimestamp = ServerRef,
       !.originateTimestamp = o,
       !.receiveTimestamp = ServerT2, !.transmitTimestamp = tx] :
      v \in {0, 4}, m \in 0..7, st \in {0, 1}, o \in Originates(nonce),
      tx \in {ZeroTimestamp, ServerT3} }

(* the reply of a server in good order, with this stratum *)
GoodReply(nonce, st) ==
  [ZeroRequest EXCEPT !.vn = 4, !.mode = specNTP_MODE_SERVER, !.stratum = st,
     !.referenceId = RefIdRATE, !.referenceTimestamp = ServerRef,
     !.originateTimestamp = NtpTimestamp(Zero32, exlibSLNETUTIL_HTONL(nonce)),
     !.receiveTimestamp = ServerT2, !.transmitTimestamp = ServerT3]

(* a few replies: a time reply, a Kiss-of-Death, a reply to another request *)
FewReplies(nonce) ==
  { GoodReply(nonce, 1), GoodReply(nonce, 0), GoodReply(Add32(nonce, U32(1)), 1) }

(* datagrams: a length on the wire and the bytes, as the struct would hold them *)
Datagram(length, bytes) == [length |-> length, bytes |-> bytes]

(* full-length datagrams with the given replies, and truncated time replies *)
Datagrams(replies, nonce) ==
  { Datagram(SizeofRequest, r) : r \in replies }
    \cup { Datagram(l, GoodReply(nonce, 1)) : l \in ShortLengths }

(***************************************************************************)
(* State.                                                                  *)
(*   client            the application's sntpex_client_handle_t            *)
(*   uvirtual_sock     the library's static struct vsocket                 *)
(*   xsntpAsynchEvent  the library's event register shared with the ISR    *)
(*   pg_vtable_api     the library's global pointer to the time source     *)
(*   rec               the application's struct xTimestampCtx_t            *)
(*   tick, clock       get_os_tick() and get_unix_timestamp() right now    *)
(*   openFds           descriptors the transport currently has open        *)
(*   pc, local         position and locals of the task inside              *)
(*                     sntpex_client_timestamp_get                         *)
(*   call              history of the calls: their number, the code the    *)
(*                     last one returned, what the handle and the record   *)
(*                     held when it started, the handlers it ran, the      *)
(*                     requests it sent, and the length (-1 for none) and  *)
(*                     the bytes of the datagram it read                   *)
(*   advances          number of clock advances so far                     *)
(***************************************************************************)
VARIABLES client, uvirtual_sock, xsntpAsynchEvent, pg_vtable_api, rec,
          tick, clock, openFds, pc, local, call, advances

vars == << client, uvirtual_sock, xsntpAsynchEvent, pg_vtable_api, rec,
           tick, clock, openFds, pc, local, call, advances >>

NoLocal == [xLibReturnCode |-> SNTPEX_SUCCESS, ulTickStart |-> Zero32, after |-> "none"]

NoCall ==
  [n |-> 0, ret |-> "none", rec0 |-> FilledTimestampCtx(Canary), kiss0 |-> Zero32,
   fd0 |-> 0, trace |-> << >>, sends |-> 0, sent |-> ZeroRequest,
   len |-> -1, reply |-> ZeroRequest]

Init ==
  /\ client = ZeroClient
  /\ uvirtual_sock = ZeroSocket
  /\ xsntpAsynchEvent = ZeroEvent
  /\ pg_vtable_api = "NULL"
  /\ rec = FilledTimestampCtx(Canary)
  /\ tick \in InitTicks
  /\ clock = 1
  /\ openFds = {}
  /\ pc = "idle"
  /\ local = NoLocal
  /\ call = NoCall
  /\ advances = 0

(***************************************************************************)
(* The transport and the time source (external collaborators).            *)
(***************************************************************************)
(* SlNetSock_create: the lowest free descriptor *)
FreshFd == CHOOSE d \in 0..(Cardinality(openFds)) : d \notin openFds

(* SlNetSock_close( fd ) *)
SlNetSock_close(fds, fd) == fds \ {fd}

get_os_tick == tick

get_unix_timestamp == U64(clock)

(* time passes: the tick counter wraps at 2^32, the clock does not go back *)
Advance(d) ==
  /\ advances < MaxAdvance
  /\ pc # "crashed"
  /\ tick' = Add32(tick, U32(d))
  /\ clock' = clock + 1
  /\ advances' = advances + 1
  /\ UNCHANGED << client, uvirtual_sock, xsntpAsynchEvent, pg_vtable_api, rec,
                  openFds, pc, local, call >>

(***************************************************************************)
(* Async event bridge.                                                     *)
(***************************************************************************)
(* prv_utility_register_event is two stores: the callback, then the bit *)
RegisterCallback(ev, cb) == [ev EXCEPT !.event_cb = cb]

RegisterBit(ev, eventbitField) == [ev EXCEPT !.SR = SetBit(ev.SR, eventbitField)]

prv_utility_register_event(ev, eventbitField, cb) ==
  RegisterBit(RegisterCallback(ev, cb), eventbitField)

(* prv_utility_unregister_event is three stores *)
UnregisterTimestamp(ev) == [ev EXCEPT !.timestamp = Zero64]

UnregisterCallback(ev) == [ev EXCEPT !.event_cb = "NULL"]

UnregisterBit(ev, eventbitField) == [ev EXCEPT !.SR = ClearBit(ev.SR, eventbitField)]

prv_utility_unregister_event(ev, eventbitField) ==
  UnregisterBit(UnregisterCallback(UnregisterTimestamp(ev)), eventbitField)

(* C's a && b on integers *)
LogicalAnd(a, b) == (a # 0) /\ (b # 0)

(* an ISR side that captures the time whether or not an event is pending *)
sntpex_eventTriggingFromISR_NoPendingTest ==
  /\ pc # "crashed"
  /\ IF pg_vtable_api = "NULL"
     THEN UNCHANGED xsntpAsynchEvent
     ELSE xsntpAsynchEvent' =
            [xsntpAsynchEvent EXCEPT
               !.SR = ClearBit(@, exlibSNTP_SOFTSR_RECV_BIT),
               !.timestamp = get_unix_timestamp]
  /\ UNCHANGED << client, uvirtual_sock, pg_vtable_api, rec, tick, clock,
                  openFds, pc, local, call, advances >>

(* an ISR side that reports success whatever it found *)
IsrReturnCode_Success(vtable, ev) == SNTPEX_SUCCESS

(* the code sntpex_eventTriggingFromISR returns *)
IsrReturnCode(vtable, ev) ==
  IF vtable = "NULL" \/ ev.SR = 0 THEN SNTPEX_ERR_FAULT_INIT ELSE SNTPEX_SUCCESS

(* sntpex_eventTriggingFromISR: runs to completion, at any point of the task *)
sntpex_eventTriggingFromISR ==
  /\ pc # "crashed"
  /\ IF pg_vtable_api = "NULL" \/ xsntpAsynchEvent.SR = 0
     THEN UNCHANGED xsntpAsynchEvent
     ELSE xsntpAsynchEvent' =
               IF LogicalAnd(xsntpAsynchEvent.SR, exlibSNTP_SOFTSR_RECV_BIT)
               THEN [xsntpAsynchEvent EXCEPT
                       !.SR = ClearBit(@, exlibSNTP_SOFTSR_RECV_BIT),
                       !.timestamp = get_unix_timestamp]
               ELSE IF LogicalAnd(xsntpAsynchEvent.SR, exlibSNTP_SOFTSR_SEND_BIT)
               THEN [xsntpAsynchEvent EXCEPT
                       !.SR = ClearBit(@, exlibSNTP_SOFTSR_SEND_BIT),
                       !.timestamp = get_unix_timestamp]
               ELSE xsntpAsynchEvent
  /\ UNCHANGED << client, uvirtual_sock, pg_vtable_api, rec, tick, clock,
                  openFds, pc, local, call, advances >>

(* the argument with which sntpex_eventTriggingFromISR invokes event_cb, *)
(* 0 when it invokes nothing                                             *)
IsrCallback(vtable, ev) ==
  IF vtable = "NULL" \/ ev.SR = 0 THEN 0
  ELSE IF LogicalAnd(ev.SR, exlibSNTP_SOFTSR_RECV_BIT)
  THEN (IF ev.event_cb # "NULL" THEN exlibSNTP_SOFTSR_RECV_BIT ELSE 0)
  ELSE IF LogicalAnd(ev.SR, exlibSNTP_SOFTSR_SEND_BIT)
  THEN (IF ev.event_cb # "NULL" THEN exlibSNTP_SOFTSR_SEND_BIT ELSE 0)
  ELSE 0

(***************************************************************************)
(* Public configuration operations (the task, between two calls).          *)
(***************************************************************************)
(* a handle initialised without the default timeout *)
InitializedClient_NoTimeout ==
  [ZeroClient EXCEPT !.sock = "uvirtual_sock",
                     !.vtable_api = "vtable",
                     !.state = UD_SNTP_CLIENT_STATE_OPEN]

InitializedClient ==
  [ZeroClient EXCEPT !.timeout = exlibSNTP_CLIENT_DEFAULT_TIMEOUT,
                     !.sock = "uvirtual_sock",
                     !.vtable_api = "vtable",
                     !.state = UD_SNTP_CLIENT_STATE_OPEN]

InitializedSocket ==
  [ZeroSocket EXCEPT !.fd = -1,
                     !.tv_sec = exlibSNTP_CLIENT_DEFAULT_TIMEOUT \div 1000,
                     !.tv_usec = (exlibSNTP_CLIENT_DEFAULT_TIMEOUT % 1000) * 1000]

(* the code sntpex_clientInitialization returns *)
InitializationCode(clientNull, vtableNull) ==
  IF clientNull \/ vtableNull THEN SNTPEX_ERR_NULL_PTR ELSE SNTPEX_SUCCESS

sntpex_clientInitialization(clientNull, vtableNull) ==
  /\ pc = "idle"
  /\ IF clientNull \/ vtableNull
     THEN UNCHANGED << client, uvirtual_sock, pg_vtable_api, xsntpAsynchEvent >>
     ELSE /\ client' = InitializedClient
          /\ uvirtual_sock' = InitializedSocket
          /\ pg_vtable_api' = "vtable"
          /\ xsntpAsynchEvent' =
               prv_utility_unregister_event(
                 prv_utility_unregister_event(xsntpAsynchEvent, exlibSNTP_SOFTSR_RECV_BIT),
                 exlibSNTP_SOFTSR_SEND_BIT)
  /\ UNCHANGED << rec, tick, clock, openFds, pc, local, call, advances >>

sntpex_SetClientTimeout(timeout) ==
  /\ pc = "idle"
  /\ client' = [client EXCEPT !.timeout = timeout]
  /\ uvirtual_sock' =
       IF client.sock # "NULL"
       THEN [uvirtual_sock EXCEPT !.tv_sec = timeout \div 1000,
                                  !.tv_usec = (timeout % 1000) * 1000]
       ELSE uvirtual_sock
  /\ UNCHANGED << xsntpAsynchEvent, pg_vtable_api, rec, tick, clock, openFds,
                  pc, local, call, advances >>

(* the memcpy of the address comes before the test of the family; a handle *)
(* whose sock is NULL makes the memcpy write through a null pointer         *)
sntpex_client_set_server_address(family) ==
  /\ pc = "idle"
  /\ IF client.sock = "NULL"
     THEN /\ pc' = "crashed"
          /\ UNCHANGED << client, uvirtual_sock >>
     ELSE /\ pc' = pc
          /\ uvirtual_sock' =
               [uvirtual_sock EXCEPT
                  !.sa_family = family,
                  !.InAddLength = IF family = "AF_INET" THEN "sizeof_AddrIn"
                                  ELSE IF family = "AF_INET6" THEN "sizeof_AddrIn6"
                                  ELSE @]
          /\ client' = IF family \in {"AF_INET", "AF_INET6"}
                       THEN [client EXCEPT !.state = UD_SNTP_CLIENT_STATE_OPEN]
                       ELSE client
  /\ UNCHANGED << xsntpAsynchEvent, pg_vtable_api, rec, tick, clock, openFds,
                  local, call, advances >>

(***************************************************************************)
(* Packet codec.                                                           *)
(***************************************************************************)
(* the request prv_utility_build_request formats for the tick it reads *)
BuildRequest(now) ==
  [ZeroRequest EXCEPT
     !.vn = specNTP_VERSION_V4, !.mode = specNTP_MODE_CLIENT, !.stratum = 2,
     !.poll = 6, !.precision = 236,
     !.transmitTimestamp = NtpTimestamp(Zero32, exlibSLNETUTIL_HTONL(now))]

prv_utility_build_request(c, now) ==
  [c EXCEPT !.expected_orig_ts = now,
            !.payload = BuildRequest(now),
            !.payloadLen = SizeofRequest]

(* the word at byte offset off of a buffer of which n bytes were overwritten *)
WordAt(new, old, off, n) == [i \in 1..4 |-> IF off + i - 1 < n THEN new[i] ELSE old[i]]

StampAt(new, old, off, n) ==
  NtpTimestamp(WordAt(new.seconds, old.seconds, off, n),
               WordAt(new.fraction, old.fraction, off + 4, n))

(* the payload after SlNetSock_recvFrom copied the first n bytes of a datagram *)
Received(new, old, n) ==
  [li |-> IF 0 < n THEN new.li ELSE old.li,
   vn |-> IF 0 < n THEN new.vn ELSE old.vn,
   mode |-> IF 0 < n THEN new.mode ELSE old.mode,
   stratum |-> IF 1 < n THEN new.stratum ELSE old.stratum,
   poll |-> IF 2 < n THEN new.poll ELSE old.poll,
   precision |-> IF 3 < n THEN new.precision ELSE old.precision,
   rootDelay |-> WordAt(new.rootDelay, old.rootDelay, 4, n),
   rootDispersion |-> WordAt(new.rootDispersion, old.rootDispersion, 8, n),
   referenceId |-> WordAt(new.referenceId, old.referenceId, 12, n),
   referenceTimestamp |-> StampAt(new.referenceTimestamp, old.referenceTimestamp, 16, n),
   originateTimestamp |-> StampAt(new.originateTimestamp, old.originateTimestamp, 24, n),
   receiveTimestamp |-> StampAt(new.receiveTimestamp, old.receiveTimestamp, 32, n),
   transmitTimestamp |-> StampAt(new.transmitTimestamp, old.transmitTimestamp, 40, n)]

(***************************************************************************)
(* Response validation (sFct_sntp_HandlingResponse), check by check.       *)
(***************************************************************************)
PayloadTooShort(payloadLen) == payloadLen < SizeofRequest

(* the handler without the test of the version *)
VersionIsZero_Skipped(responce) == FALSE

VersionIsZero(responce) == responce.vn = 0

(* the handler without the test of the transmit timestamp *)
TransmitIsZero_Skipped(responce) == FALSE

TransmitIsZero(responce) == responce.transmitTimestamp = ZeroTimestamp

(* the handler accepting every mode but the client's own *)
ModeIsInvalid_ClientOnly(responce) == responce.mode = specNTP_MODE_CLIENT

ModeIsInvalid(responce) ==
  responce.mode # specNTP_MODE_SERVER /\ responce.mode # specNTP_MODE_BROADCAST

(* the handler comparing the fraction and not the seconds *)
OriginateMismatch_FractionOnly(responce, expected_orig_ts) ==
  responce.originateTimestamp.fraction # exlibSLNETUTIL_NTOHL(expected_orig_ts)

OriginateMismatch(responce, expected_orig_ts) ==
  \/ responce.originateTimestamp.seconds # Zero32
  \/ responce.originateTimestamp.fraction # exlibSLNETUTIL_NTOHL(expected_orig_ts)

IsKissOfDeath(responce) == responce.stratum = 0

(* the timestamps the handler exports into the caller's record *)
ExportTimestamps(r, responce) ==
  [r EXCEPT
     !.transmit64_ts =
        prv_utility_ntp_to_epoch(exlibSLNETUTIL_NTOHL(responce.transmitTimestamp.seconds),
                                 exlibSLNETUTIL_NTOHL(responce.transmitTimestamp.fraction)),
     !.receive64_ts =
        prv_utility_ntp_to_epoch(exlibSLNETUTIL_NTOHL(responce.receiveTimestamp.seconds),
                                 exlibSLNETUTIL_NTOHL(responce.receiveTimestamp.fraction)),
     !.referenceTimestamp =
        NtpTimestamp(exlibSLNETUTIL_NTOHL(responce.referenceTimestamp.seconds),
                     exlibSLNETUTIL_NTOHL(responce.referenceTimestamp.fraction)),
     !.receiveTimestamp =
        NtpTimestamp(exlibSLNETUTIL_NTOHL(responce.receiveTimestamp.seconds),
                     exlibSLNETUTIL_NTOHL(responce.receiveTimestamp.fraction)),
     !.transmitTimestamp =
        NtpTimestamp(exlibSLNETUTIL_NTOHL(responce.transmitTimestamp.seconds),
                     exlibSLNETUTIL_NTOHL(responce.transmitTimestamp.fraction))]

(* the handler: its return code, the handle and the record it leaves *)
sFct_sntp_HandlingResponse(c, r) ==
  LET responce == c.payload
      invalid  == [code |-> SNTPEX_ERR_INVALID_MESSAGE, client |-> c, rec |-> r]
  IN  IF PayloadTooShort(c.payloadLen) THEN invalid
      ELSE IF VersionIsZero(responce) THEN invalid
      ELSE IF TransmitIsZero(responce) THEN invalid
      ELSE IF ModeIsInvalid(responce) THEN invalid
      ELSE IF OriginateMismatch(responce, c.expected_orig_ts) THEN invalid
      ELSE IF IsKissOfDeath(responce)
           THEN [code |-> SNTPEX_ERR_REQUEST_REJECTED,
                 client |-> [c EXCEPT !.kissCode = exlibSLNETUTIL_NTOHL(responce.referenceId)],
                 rec |-> r]
      ELSE [code |-> SNTPEX_SUCCESS,
            client |-> [c EXCEPT !.kissCode = Zero32,
                                 !.state = UD_SNTP_CLIENT_STATE_COMPLETE],
            rec |-> ExportTimestamps(r, responce)]

(***************************************************************************)
(* Transport results and their classification.                             *)
(***************************************************************************)
SLNETERR_BSD_EAGAIN == -11

(* any other negative code of the transport *)
TransportErrors == {-1}

(* what SlNetSock_sendTo may return for a datagram of len bytes *)
SendResults(len) == {SLNETERR_BSD_EAGAIN} \cup TransportErrors \cup {len - 1, len}

(* a loop condition that polls for as long as the transport would block *)
PollAgain_NoDeadline(SLReturnCode, now, ulTickStart, timeout) ==
  /\ exlibSNTP_CLIENT_USE_NONBLOCKING_TIMEOUT_OPTION
  /\ SLReturnCode = SLNETERR_BSD_EAGAIN

(* a loop condition that compares the tick with a deadline start + timeout *)
(* instead of the elapsed ticks                                           *)
PollAgain_Deadline(SLReturnCode, now, ulTickStart, timeout) ==
  /\ exlibSNTP_CLIENT_USE_NONBLOCKING_TIMEOUT_OPTION
  /\ SLReturnCode = SLNETERR_BSD_EAGAIN
  /\ LessW(now, Add32(ulTickStart, U32(timeout)))

(* the loop condition of the non-blocking strategy *)
PollAgain(SLReturnCode, now, ulTickStart, timeout) ==
  /\ exlibSNTP_CLIENT_USE_NONBLOCKING_TIMEOUT_OPTION
  /\ SLReturnCode = SLNETERR_BSD_EAGAIN
  /\ LessW(Sub32(now, ulTickStart), U32(timeout))

(* the classification that takes an incomplete write for a full one *)
SendOutcome_ShortWrite(SLReturnCode, payloadLen) ==
  IF SLReturnCode = SLNETERR_BSD_EAGAIN THEN SNTPEX_ERR_TIMEOUT
  ELSE IF SLReturnCode < 0 THEN SNTPEX_ERR_TX
  ELSE SNTPEX_SUCCESS

SendOutcome(SLReturnCode, payloadLen) ==
  IF SLReturnCode = SLNETERR_BSD_EAGAIN THEN SNTPEX_ERR_TIMEOUT
  ELSE IF SLReturnCode < 0 \/ SLReturnCode # payloadLen THEN SNTPEX_ERR_TX
  ELSE SNTPEX_SUCCESS

(* the classification without the comparison of the length *)
ReceiveOutcome_AnyLength(SLReturnCode, payloadLen, timestamp) ==
  IF SLReturnCode = SLNETERR_BSD_EAGAIN THEN SNTPEX_ERR_TIMEOUT
  ELSE IF SLReturnCode < 0 THEN SNTPEX_ERR_RX
  ELSE IF timestamp = Zero64 THEN SNTPEX_ERR_INVALID_MESSAGE
  ELSE SNTPEX_SUCCESS

(* the classification without the test of the captured timestamp *)
ReceiveOutcome_AnyTimestamp(SLReturnCode, payloadLen, timestamp) ==
  IF SLReturnCode = SLNETERR_BSD_EAGAIN THEN SNTPEX_ERR_TIMEOUT
  ELSE IF SLReturnCode < 0 THEN SNTPEX_ERR_RX
  ELSE IF SLReturnCode # payloadLen THEN SNTPEX_ERR_INVALID_MESSAGE
  ELSE SNTPEX_SUCCESS

ReceiveOutcome(SLReturnCode, payloadLen, timestamp) ==
  IF SLReturnCode = SLNETERR_BSD_EAGAIN THEN SNTPEX_ERR_TIMEOUT
  ELSE IF SLReturnCode < 0 THEN SNTPEX_ERR_RX
  ELSE IF SLReturnCode # payloadLen THEN SNTPEX_ERR_INVALID_MESSAGE
  ELSE IF timestamp = Zero64 THEN SNTPEX_ERR_INVALID_MESSAGE
  ELSE SNTPEX_SUCCESS

(* a Closing handler that closes the socket and leaves the state as it is *)
sFct_sntp_CloseConnection_KeepState(c, s, fds) ==
  IF c.sock = "NULL"
  THEN [code |-> SNTPEX_ERR_NULL_PTR, client |-> c, sock |-> s, fds |-> fds]
  ELSE [code |-> SNTPEX_SUCCESS,
        client |-> c,
        sock |-> IF s.fd # -1 THEN [s EXCEPT !.fd = -1] ELSE s,
        fds |-> IF s.fd # -1 THEN SlNetSock_close(fds, s.fd) ELSE fds]

(* sFct_sntp_CloseConnection: its code, the handle, the socket, the open set *)
sFct_sntp_CloseConnection(c, s, fds) ==
  IF c.sock = "NULL"
  THEN [code |-> SNTPEX_ERR_NULL_PTR, client |-> c, sock |-> s, fds |-> fds]
  ELSE [code |-> SNTPEX_SUCCESS,
        client |-> [c EXCEPT !.state = UD_SNTP_CLIENT_STATE_OPEN],
        sock |-> IF s.fd # -1 THEN [s EXCEPT !.fd = -1] ELSE s,
        fds |-> IF s.fd # -1 THEN SlNetSock_close(fds, s.fd) ELSE fds]

(***************************************************************************)
(* sntpex_client_timestamp_get, step by step.  The task is at              *)
(*   "idle"       outside the call                                         *)
(*   "fsm"        at the test of the while loop                            *)
(*   "send_loop"  in the do-while of sFct_sntp_SendRequest                 *)
(*   "recv_reg"   in prv_utility_register_event, callback stored           *)
(*   "recv_loop"  in the do-while of sFct_sntp_ReceiveResponse             *)
(*   "unreg_ts", "unreg_cb", "unreg_sr"                                    *)
(*                before each store of prv_utility_unregister_event        *)
(*   "crashed"    after a call or a store through a null pointer           *)
(* The ISR may run between any two steps.                                  *)
(***************************************************************************)
Dispatch(state) == pc = "fsm" /\ client.state = state

(* a handler returned an error: the loop ends, the else branch begins *)
Fail(code) ==
  /\ local' = [local EXCEPT !.xLibReturnCode = code, !.after = "close"]
  /\ pc' = "unreg_ts"

(* a return that hands back what the Closing handler reported *)
Return_ClosingResult(code) ==
  /\ call' = [call EXCEPT
                !.ret = sFct_sntp_CloseConnection(client, uvirtual_sock, openFds).code]
  /\ local' = NoLocal
  /\ pc' = "idle"

(* the call returns to the application *)
Return(code) ==
  /\ call' = [call EXCEPT !.ret = code]
  /\ local' = NoLocal
  /\ pc' = "idle"

(* the call returning to Open after a success *)
StateAfterSuccess_Open == UD_SNTP_CLIENT_STATE_OPEN

(* the state the call leaves when the loop ended on COMPLETE *)
StateAfterSuccess == UD_SNTP_CLIENT_STATE_SENDING

sntpex_client_timestamp_get(clientNull, recNull) ==
  /\ pc = "idle"
  /\ call.n < MaxCalls
  /\ IF clientNull \/ recNull
     THEN /\ call' = [NoCall EXCEPT !.n = call.n + 1, !.ret = SNTPEX_ERR_NULL_PTR,
                        !.rec0 = rec, !.kiss0 = client.kissCode,
                        !.fd0 = uvirtual_sock.fd]
          /\ UNCHANGED << client, pc, local >>
     ELSE IF client.vtable_api = "NULL"
     THEN /\ pc' = "crashed"
          /\ call' = [NoCall EXCEPT !.n = call.n + 1, !.ret = "pending", !.rec0 = rec,
                        !.kiss0 = client.kissCode, !.fd0 = uvirtual_sock.fd]
          /\ UNCHANGED << client, local >>
     ELSE /\ client' = [client EXCEPT !.startTime = get_os_tick,
                                      !.xTimestampList = "rec"]
          /\ local' = NoLocal
          /\ call' = [NoCall EXCEPT !.n = call.n + 1, !.ret = "pending", !.rec0 = rec,
                        !.kiss0 = client.kissCode, !.fd0 = uvirtual_sock.fd]
          /\ pc' = "fsm"
  /\ UNCHANGED << uvirtual_sock, xsntpAsynchEvent, pg_vtable_api, rec, tick, clock,
                  openFds, advances >>

(* sFct_sntp_OpenConnection; created is the value SlNetSock_create returns, *)
(* optOk whether SlNetSock_setOpt succeeds                                  *)
OpenConnection(created, optOk) ==
  /\ Dispatch(UD_SNTP_CLIENT_STATE_OPEN)
  /\ call' = [call EXCEPT !.trace = Append(@, UD_SNTP_CLIENT_STATE_OPEN)]
  /\ IF client.sock = "NULL"
     THEN /\ Fail(SNTPEX_ERR_NULL_PTR)
          /\ UNCHANGED << client, uvirtual_sock, openFds >>
     ELSE LET closed == IF uvirtual_sock.fd # -1
                        THEN SlNetSock_close(openFds, uvirtual_sock.fd)
                        ELSE openFds
          IN  /\ uvirtual_sock' = [uvirtual_sock EXCEPT !.fd = created]
              /\ openFds' = IF created >= 0 THEN closed \cup {created} ELSE closed
              /\ created >= 0 => created = CHOOSE d \in 0..Cardinality(closed) : d \notin closed
              /\ IF created < 0
                 THEN Fail(SNTPEX_ERR_SOCKET_CREATE) /\ UNCHANGED client
                 ELSE IF ~ optOk
                 THEN Fail(SNTPEX_ERR_SOCKET_SET_OPT) /\ UNCHANGED client
                 ELSE /\ client' = [client EXCEPT !.state = UD_SNTP_CLIENT_STATE_SENDING]
                      /\ UNCHANGED << pc, local >>
  /\ UNCHANGED << xsntpAsynchEvent, pg_vtable_api, rec, tick, clock, advances >>

(* sFct_sntp_SendRequest up to the do-while: build, capture T1, start tick *)
SendRequest ==
  /\ Dispatch(UD_SNTP_CLIENT_STATE_SENDING)
  /\ call' = [call EXCEPT !.trace = Append(@, UD_SNTP_CLIENT_STATE_SENDING)]
  /\ client' = prv_utility_build_request(client, get_os_tick)
  /\ rec' = [rec EXCEPT !.originate64_ts = get_unix_timestamp]
  /\ local' = [local EXCEPT !.ulTickStart = get_os_tick]
  /\ pc' = "send_loop"
  /\ UNCHANGED << uvirtual_sock, xsntpAsynchEvent, pg_vtable_api, tick, clock,
                  openFds, advances >>

(* one SlNetSock_sendTo, the loop test and the classification of the result *)
SendAttempt(SLReturnCode) ==
  /\ pc = "send_loop"
  /\ IF PollAgain(SLReturnCode, get_os_tick, local.ulTickStart, client.timeout)
     THEN UNCHANGED << client, pc, local, call >>
     ELSE IF SendOutcome(SLReturnCode, client.payloadLen) # SNTPEX_SUCCESS
     THEN /\ Fail(SendOutcome(SLReturnCode, client.payloadLen))
          /\ UNCHANGED << client, call >>
     ELSE /\ client' = [client EXCEPT !.payload = ZeroRequest,
                                      !.state = UD_SNTP_CLIENT_STATE_RECEIVING]
          /\ call' = [call EXCEPT !.sends = @ + 1, !.sent = client.payload]
          /\ pc' = "fsm"
          /\ UNCHANGED local
  /\ UNCHANGED << uvirtual_sock, xsntpAsynchEvent, pg_vtable_api, rec, tick, clock,
                  openFds, advances >>

(* sFct_sntp_ReceiveResponse: first store of prv_utility_register_event *)
ReceiveResponse ==
  /\ Dispatch(UD_SNTP_CLIENT_STATE_RECEIVING)
  /\ call' = [call EXCEPT !.trace = Append(@, UD_SNTP_CLIENT_STATE_RECEIVING)]
  /\ xsntpAsynchEvent' = RegisterCallback(xsntpAsynchEvent, "NULL")
  /\ pc' = "recv_reg"
  /\ UNCHANGED << client, uvirtual_sock, pg_vtable_api, rec, tick, clock, openFds,
                  local, advances >>

(* second store of prv_utility_register_event, then the start tick *)
ReceiveRegistered ==
  /\ pc = "recv_reg"
  /\ xsntpAsynchEvent' = RegisterBit(xsntpAsynchEvent, exlibSNTP_SOFTSR_RECV_BIT)
  /\ local' = [local EXCEPT !.ulTickStart = get_os_tick]
  /\ pc' = "recv_loop"
  /\ UNCHANGED << client, uvirtual_sock, pg_vtable_api, rec, tick, clock, openFds,
                  call, advances >>

(* one SlNetSock_recvFrom that reads nothing: would-block or an error *)
ReceiveNothing(SLReturnCode) ==
  /\ pc = "recv_loop"
  /\ IF PollAgain(SLReturnCode, get_os_tick, local.ulTickStart, client.timeout)
     THEN UNCHANGED << pc, local >>
     ELSE Fail(ReceiveOutcome(SLReturnCode, client.payloadLen, xsntpAsynchEvent.timestamp))
  /\ UNCHANGED << client, uvirtual_sock, xsntpAsynchEvent, pg_vtable_api, rec, tick,
                  clock, openFds, call, advances >>

(* one SlNetSock_recvFrom that reads a datagram of length bytes: at most *)
(* payloadLen bytes of it are copied into the payload                    *)
ReceiveDatagram(length, datagram) ==
  /\ pc = "recv_loop"
  /\ LET SLReturnCode == IF length < client.payloadLen THEN length ELSE client.payloadLen
         outcome == ReceiveOutcome(SLReturnCode, client.payloadLen,
                                   xsntpAsynchEvent.timestamp)
     IN  /\ client' = [client EXCEPT
                         !.payload = Received(datagram, @, SLReturnCode)]
         /\ call' = [call EXCEPT !.reply = datagram, !.len = length]
         /\ IF outcome # SNTPEX_SUCCESS
            THEN Fail(outcome) /\ UNCHANGED rec
            ELSE /\ rec' = [rec EXCEPT !.reference64_ts = xsntpAsynchEvent.timestamp]
                 /\ local' = [local EXCEPT !.after = "handling"]
                 /\ pc' = "unreg_ts"
  /\ UNCHANGED << uvirtual_sock, xsntpAsynchEvent, pg_vtable_api, tick, clock,
                  openFds, advances >>

(* prv_utility_unregister_event( exlibSNTP_SOFTSR_RECV_BIT ), store by store *)
UnregisterStore1 ==
  /\ pc = "unreg_ts"
  /\ xsntpAsynchEvent' = UnregisterTimestamp(xsntpAsynchEvent)
  /\ pc' = "unreg_cb"
  /\ UNCHANGED << client, uvirtual_sock, pg_vtable_api, rec, tick, clock, openFds,
                  local, call, advances >>

UnregisterStore2 ==
  /\ pc = "unreg_cb"
  /\ xsntpAsynchEvent' = UnregisterCallback(xsntpAsynchEvent)
  /\ pc' = "unreg_sr"
  /\ UNCHANGED << client, uvirtual_sock, pg_vtable_api, rec, tick, clock, openFds,
                  local, call, advances >>

(* last store in sFct_sntp_ReceiveResponse: the handler returns success *)
UnregisterThenHandle ==
  /\ pc = "unreg_sr"
  /\ local.after = "handling"
  /\ xsntpAsynchEvent' = UnregisterBit(xsntpAsynchEvent, exlibSNTP_SOFTSR_RECV_BIT)
  /\ client' = [client EXCEPT !.state = UD_SNTP_CLIENT_STATE_HANDLING_RSP]
  /\ local' = [local EXCEPT !.after = "none"]
  /\ pc' = "fsm"
  /\ UNCHANGED << uvirtual_sock, pg_vtable_api, rec, tick, clock, openFds,
                  call, advances >>

(* last store in the else branch of the call: close, return the error *)
UnregisterThenClose ==
  /\ pc = "unreg_sr"
  /\ local.after = "close"
  /\ xsntpAsynchEvent' = UnregisterBit(xsntpAsynchEvent, exlibSNTP_SOFTSR_RECV_BIT)
  /\ LET closed == sFct_sntp_CloseConnection(client, uvirtual_sock, openFds)
     IN  /\ client' = closed.client
         /\ uvirtual_sock' = closed.sock
         /\ openFds' = closed.fds
  /\ Return(local.xLibReturnCode)
  /\ UNCHANGED << pg_vtable_api, rec, tick, clock, advances >>

(* sFct_sntp_HandlingResponse, and on success the end of the call *)
HandlingResponse ==
  /\ Dispatch(UD_SNTP_CLIENT_STATE_HANDLING_RSP)
  /\ LET handled == sFct_sntp_HandlingResponse(client, rec)
     IN  IF handled.code = SNTPEX_SUCCESS
         THEN /\ client' = [handled.client EXCEPT !.state = StateAfterSuccess]
              /\ rec' = handled.rec
              /\ call' = [call EXCEPT
                            !.trace = @ \o << UD_SNTP_CLIENT_STATE_HANDLING_RSP,
                                             handled.client.state >>,
                            !.ret = SNTPEX_SUCCESS]
              /\ local' = NoLocal
              /\ pc' = "idle"
         ELSE /\ client' = handled.client
              /\ rec' = handled.rec
              /\ call' = [call EXCEPT
                            !.trace = Append(@, UD_SNTP_CLIENT_STATE_HANDLING_RSP)]
              /\ Fail(handled.code)
  /\ UNCHANGED << uvirtual_sock, xsntpAsynchEvent, pg_vtable_api, tick, clock,
                  openFds, advances >>

(* the getter without the test of the handle *)
sntpex_client_Kiss_code_get_NoNullTest(clientNull) == client.kissCode

(* sntpex_client_Kiss_code_get *)
sntpex_client_Kiss_code_get(clientNull) ==
  IF ~ clientNull THEN client.kissCode ELSE Zero32

(* a deinitialization that clears the handle and leaves the socket alone *)
sntpex_client_deinitialization_NoClose ==
  /\ pc = "idle"
  /\ client' = [ZeroClient EXCEPT !.state = UD_SNTP_CLIENT_STATE_OPEN]
  /\ UNCHANGED << uvirtual_sock, openFds, xsntpAsynchEvent, pg_vtable_api, rec, tick,
                  clock, pc, local, call, advances >>

(* sntpex_client_deinitialization *)
sntpex_client_deinitialization ==
  /\ pc = "idle"
  /\ LET closed == sFct_sntp_CloseConnection(client, uvirtual_sock, openFds)
     IN  /\ uvirtual_sock' = closed.sock
         /\ openFds' = closed.fds
  /\ client' = [ZeroClient EXCEPT !.state = UD_SNTP_CLIENT_STATE_OPEN]
  /\ UNCHANGED << xsntpAsynchEvent, pg_vtable_api, rec, tick, clock, pc, local,
                  call, advances >>

(* the steps of the task inside the call that take no input *)
TaskStep ==
  \/ SendRequest
  \/ ReceiveResponse
  \/ ReceiveRegistered
  \/ UnregisterStore1
  \/ UnregisterStore2
  \/ UnregisterThenHandle
  \/ UnregisterThenClose
  \/ HandlingResponse

(* the transport answers a send *)
SendAny(results) ==
  /\ pc = "send_loop"
  /\ \E r \in results : SendAttempt(r)

(* the transport answers a receive with a datagram *)
ReceiveAny(replies) ==
  /\ pc = "recv_loop"
  /\ \E dg \in Datagrams(replies, client.expected_orig_ts) :
       ReceiveDatagram(dg.length, dg.bytes)

(* the whole system: every public operation, every transport result, the *)
(* ISR and the clock, with a few replies                                 *)
Next ==
  \/ \E clientNull, vtableNull \in BOOLEAN :
       sntpex_clientInitialization(clientNull, vtableNull)
  \/ \E timeout \in TimeoutChoices : sntpex_SetClientTimeout(timeout)
  \/ \E family \in Families : sntpex_client_set_server_address(family)
  \/ sntpex_client_deinitialization
  \/ \E clientNull, recNull \in BOOLEAN : sntpex_client_timestamp_get(clientNull, recNull)
  \/ \E created \in CreateFailCodes \cup 0..MaxCalls, optOk \in BOOLEAN :
       OpenConnection(created, optOk)
  \/ SendAny(SendResults(client.payloadLen))
  \/ \E r \in {SLNETERR_BSD_EAGAIN} \cup TransportErrors : ReceiveNothing(r)
  \/ ReceiveAny(FewReplies(client.expected_orig_ts))
  \/ TaskStep
  \/ sntpex_eventTriggingFromISR
  \/ \E d \in TickSteps : Advance(d)

Spec == Init /\ [][Next]_vars

(***************************************************************************)
(* The exchange alone: an initialised handle, a transport that sends the   *)
(* request at once, and every reply of Replies.                            *)
(***************************************************************************)
InitExchange ==
  /\ client = InitializedClient
  /\ uvirtual_sock = InitializedSocket
  /\ xsntpAsynchEvent = ZeroEvent
  /\ pg_vtable_api = "vtable"
  /\ rec = FilledTimestampCtx(Canary)
  /\ tick \in InitTicks
  /\ clock = 1
  /\ openFds = {}
  /\ pc = "idle"
  /\ local = NoLocal
  /\ call = NoCall
  /\ advances = 0

NextExchange ==
  \/ sntpex_client_timestamp_get(FALSE, FALSE)
  \/ \E created \in 0..MaxCalls : OpenConnection(created, TRUE)
  \/ SendAny({client.payloadLen})
  \/ ReceiveAny(Replies(client.expected_orig_ts))
  \/ TaskStep
  \/ sntpex_eventTriggingFromISR
  \/ \E d \in TickSteps : Advance(d)

SpecExchange == InitExchange /\ [][NextExchange]_vars

(***************************************************************************)
(* Polling: an initialised handle whose timeout the application set to     *)
(* PollTimeout ms, a transport on which every receive and any send reports *)
(* would-block, and a tick that advances while the task polls.  The task   *)
(* keeps running and the tick keeps advancing (weak fairness).             *)
(***************************************************************************)
InitPolling ==
  /\ client = [InitializedClient EXCEPT !.timeout = PollTimeout]
  /\ uvirtual_sock = [InitializedSocket EXCEPT !.tv_sec = PollTimeout \div 1000,
                                               !.tv_usec = (PollTimeout % 1000) * 1000]
  /\ xsntpAsynchEvent = ZeroEvent
  /\ pg_vtable_api = "vtable"
  /\ rec = FilledTimestampCtx(Canary)
  /\ tick \in InitTicks
  /\ clock = 1
  /\ openFds = {}
  /\ pc = "idle"
  /\ local = NoLocal
  /\ call = NoCall
  /\ advances = 0

(* the tick source advances while a do-while of the task is waiting for it *)
Tick(d) ==
  /\ pc \in {"send_loop", "recv_loop"}
  /\ LessW(Sub32(get_os_tick, local.ulTickStart), U32(client.timeout))
  /\ tick' = Add32(tick, U32(d))
  /\ clock' = clock + 1
  /\ UNCHANGED << client, uvirtual_sock, xsntpAsynchEvent, pg_vtable_api, rec,
                  openFds, pc, local, call, advances >>

OpenAny == \E created \in 0..MaxCalls : OpenConnection(created, TRUE)

SendOrBlock == SendAny({SLNETERR_BSD_EAGAIN, client.payloadLen})

ReceiveBlocks == ReceiveNothing(SLNETERR_BSD_EAGAIN)

TickAny == \E d \in TickSteps : Tick(d)

(* the steps of the task when nothing is ever read *)
PollingStep ==
  \/ SendRequest
  \/ ReceiveResponse
  \/ ReceiveRegistered
  \/ UnregisterStore1
  \/ UnregisterStore2
  \/ UnregisterThenClose

NextPolling ==
  \/ sntpex_client_timestamp_get(FALSE, FALSE)
  \/ OpenAny
  \/ SendOrBlock
  \/ ReceiveBlocks
  \/ PollingStep
  \/ sntpex_eventTriggingFromISR
  \/ TickAny

SpecPolling ==
  /\ InitPolling
  /\ [][NextPolling]_vars
  /\ WF_vars(OpenAny)
  /\ WF_vars(SendOrBlock)
  /\ WF_vars(ReceiveBlocks)
  /\ WF_vars(PollingStep)
  /\ WF_vars(TickAny)

(***************************************************************************)
(* The event bridge alone: on an initialised library, the register and     *)
(* unregister routines with either event kind and with or without a        *)
(* callback, the ISR-side routine, and a clock that advances.              *)
(***************************************************************************)
EventKinds == {exlibSNTP_SOFTSR_RECV_BIT, exlibSNTP_SOFTSR_SEND_BIT}

EventCallbacks == {"NULL", "cb"}

RegisterEvent(eventbitField, cb) ==
  /\ pc = "idle"
  /\ xsntpAsynchEvent' = prv_utility_register_event(xsntpAsynchEvent, eventbitField, cb)
  /\ UNCHANGED << client, uvirtual_sock, pg_vtable_api, rec, tick, clock, openFds,
                  pc, local, call, advances >>

UnregisterEvent(eventbitField) ==
  /\ pc = "idle"
  /\ xsntpAsynchEvent' = prv_utility_unregister_event(xsntpAsynchEvent, eventbitField)
  /\ UNCHANGED << client, uvirtual_sock, pg_vtable_api, rec, tick, clock, openFds,
                  pc, local, call, advances >>

ClockAdvance ==
  /\ clock < MaxClock
  /\ clock' = clock + 1
  /\ UNCHANGED << client, uvirtual_sock, xsntpAsynchEvent, pg_vtable_api, rec, tick,
                  openFds, pc, local, call, advances >>

NextISR ==
  \/ \E k \in EventKinds, cb \in EventCallbacks : RegisterEvent(k, cb)
  \/ \E k \in EventKinds : UnregisterEvent(k)
  \/ sntpex_eventTriggingFromISR
  \/ ClockAdvance

SpecISR == InitExchange /\ [][NextISR]_vars

(***************************************************************************)
(* The converter alone: a response whose receive and transmit timestamps   *)
(* are drawn from sample values sits in the payload, and the handler       *)
(* exports it into the caller's record.                                    *)
(***************************************************************************)
(* NTP seconds in host order: 0, 1, the epoch offset D = 2208988800 less   *)
(* 4295 and less 1, D, D plus 1, 4294 and 4295, 2^31 - 1 and 2^32 - 1      *)
SampleSeconds ==
  { << 0, 0, 0, 0 >>,
    << 1, 0, 0, 0 >>,
    << 185, 109, 170, 131 >>,
    << 127, 126, 170, 131 >>,
    << 128, 126, 170, 131 >>,
    << 129, 126, 170, 131 >>,
    << 70, 143, 170, 131 >>,
    << 71, 143, 170, 131 >>,
    << 255, 255, 255, 127 >>,
    << 255, 255, 255, 255 >> }

(* NTP fractions in host order: 0, 1, 4294, 4295, 2^30, 2^31 - 1, 2^31,    *)
(* 3 * 2^30, 0x12345678, 0x91B7584A, 0xFFFFF77B, 0xFFFFF77C, 0xFFFFFFFF    *)
SampleFractions ==
  { << 0, 0, 0, 0 >>,
    << 1, 0, 0, 0 >>,
    << 198, 16, 0, 0 >>,
    << 199, 16, 0, 0 >>,
    << 0, 0, 0, 64 >>,
    << 255, 255, 255, 127 >>,
    << 0, 0, 0, 128 >>,
    << 0, 0, 0, 192 >>,
    << 120, 86, 52, 18 >>,
    << 74, 88, 183, 145 >>,
    << 123, 247, 255, 255 >>,
    << 124, 247, 255, 255 >>,
    << 255, 255, 255, 255 >> }

SampleTimestamps ==
  { NtpTimestamp(exlibSLNETUTIL_HTONL(sec), exlibSLNETUTIL_HTONL(frac)) :
      sec \in SampleSeconds, frac \in SampleFractions }

InitConverter ==
  /\ \E tx \in SampleTimestamps, rx \in SampleTimestamps :
       client = [InitializedClient EXCEPT
                   !.payload = [GoodReply(Zero32, 1) EXCEPT !.transmitTimestamp = tx,
                                                            !.receiveTimestamp = rx]]
  /\ uvirtual_sock = InitializedSocket
  /\ xsntpAsynchEvent = ZeroEvent
  /\ pg_vtable_api = "vtable"
  /\ rec = FilledTimestampCtx(Canary)
  /\ tick \in InitTicks
  /\ clock = 1
  /\ openFds = {}
  /\ pc = "idle"
  /\ local = NoLocal
  /\ call = NoCall
  /\ advances = 0

(* the export of sFct_sntp_HandlingResponse applied to the payload *)
ConvertTimestamps ==
  /\ rec = FilledTimestampCtx(Canary)
  /\ rec' = ExportTimestamps(rec, client.payload)
  /\ UNCHANGED << client, uvirtual_sock, xsntpAsynchEvent, pg_vtable_api, tick, clock,
                  openFds, pc, local, call, advances >>

NextConverter == ConvertTimestamps

SpecConverter == InitConverter /\ [][NextConverter]_vars

(***************************************************************************)
(* The blocking strategy (exlibSNTP_CLIENT_USE_NONBLOCKING_TIMEOUT_OPTION   *)
(* not defined): the Open handler hands the descriptor's timeout to the    *)
(* stack, a send is one SlNetSock_sendTo and a receive one                 *)
(* SlNetSock_recvFrom, which the stack ends with would-block when the       *)
(* timeout it holds has elapsed.                                           *)
(***************************************************************************)
OpenConnectionBlocking(created, optOk) ==
  /\ Dispatch(UD_SNTP_CLIENT_STATE_OPEN)
  /\ client.sock # "NULL"
  /\ call' = [call EXCEPT !.trace = Append(@, UD_SNTP_CLIENT_STATE_OPEN)]
  /\ LET closed == IF uvirtual_sock.fd # -1
                   THEN SlNetSock_close(openFds, uvirtual_sock.fd)
                   ELSE openFds
     IN  /\ created = CHOOSE d \in 0..Cardinality(closed) : d \notin closed
         /\ openFds' = closed \cup {created}
         /\ uvirtual_sock' =
              [uvirtual_sock EXCEPT
                 !.fd = created,
                 !.rcv_timeo = IF optOk
                               THEN uvirtual_sock.tv_sec * 1000
                                      + uvirtual_sock.tv_usec \div 1000
                               ELSE @]
         /\ IF optOk
            THEN /\ client' = [client EXCEPT !.state = UD_SNTP_CLIENT_STATE_SENDING]
                 /\ UNCHANGED << pc, local >>
            ELSE Fail(SNTPEX_ERR_SOCKET_SET_OPT) /\ UNCHANGED client
  /\ UNCHANGED << xsntpAsynchEvent, pg_vtable_api, rec, tick, clock, advances >>

(* SlNetSock_recvFrom blocks for the timeout the stack holds, then reports *)
(* would-block                                                             *)
RecvFromBlocks ==
  /\ pc = "recv_loop"
  /\ tick' = Add32(tick, U32(uvirtual_sock.rcv_timeo))
  /\ clock' = clock + 1
  /\ Fail(ReceiveOutcome(SLNETERR_BSD_EAGAIN, client.payloadLen,
                         xsntpAsynchEvent.timestamp))
  /\ UNCHANGED << client, uvirtual_sock, xsntpAsynchEvent, pg_vtable_api, rec,
                  openFds, call, advances >>

NextBlocking ==
  \/ \E timeout \in TimeoutChoices : sntpex_SetClientTimeout(timeout)
  \/ sntpex_client_timestamp_get(FALSE, FALSE)
  \/ \E created \in 0..MaxCalls, optOk \in BOOLEAN : OpenConnectionBlocking(created, optOk)
  \/ SendAny({client.payloadLen})
  \/ ReceiveAny(FewReplies(client.expected_orig_ts))
  \/ RecvFromBlocks
  \/ TaskStep
  \/ sntpex_eventTriggingFromISR

SpecBlocking == InitExchange /\ [][NextBlocking]_vars

(***************************************************************************)
(* Vocabulary of the properties.                                           *)
(***************************************************************************)
(* the step on which sntpex_client_timestamp_get returns to its caller *)
Returns == call' # call /\ call'.ret \notin {"none", "pending"}

ReturnsError == Returns /\ call'.ret # SNTPEX_SUCCESS

ReturnsSuccess == Returns /\ call'.ret = SNTPEX_SUCCESS

(* the last call has returned this code and no other call has begun *)
Returned(code) == pc = "idle" /\ call.ret = code

(* the last call has returned and, in it, recvFrom read a datagram *)
ReturnedAfterReply == pc = "idle" /\ call.ret \notin {"none", "pending"} /\ call.len >= 0

(* the last call ran this handler *)
Ran(state) == \E i \in 1..Len(call.trace) : call.trace[i] = state

(* an NTP timestamp of the reply in host byte order *)
HostOrder(ts) ==
  NtpTimestamp(exlibSLNETUTIL_NTOHL(ts.seconds), exlibSLNETUTIL_NTOHL(ts.fraction))

(* the reply echoes the request this call sent: originate seconds 0, and the *)
(* originate fraction carries the bytes of the request's transmit fraction   *)
EchoesRequest ==
  /\ call.sends = 1
  /\ call.reply.originateTimestamp.seconds = Zero32
  /\ call.reply.originateTimestamp.fraction = call.sent.transmitTimestamp.fraction

(***************************************************************************)
(* C1: whenever get_timestamps returns an error, every field of the        *)
(* caller's record has the value it had before the call.                   *)
(***************************************************************************)
C1_RecordUntouchedOnError == [][ReturnsError => rec' = call'.rec0]_vars

(***************************************************************************)
(* C2: whenever get_timestamps returns an error on an initialised handle,  *)
(* the transport descriptor is closed and holds the sentinel -1.           *)
(***************************************************************************)
C2_DescriptorClosedOnError ==
  [][(ReturnsError /\ client.sock # "NULL")
       => (uvirtual_sock'.fd = -1 /\ openFds' = {})]_vars

(***************************************************************************)
(* C3: whenever get_timestamps returns an error on an initialised handle,  *)
(* the state is Open and the event bridge is unregistered: receive-pending *)
(* bit clear, captured timestamp 0, callback null.                         *)
(***************************************************************************)
C3_CleanOpenStateOnError ==
  [][(ReturnsError /\ client.sock # "NULL")
       => /\ client'.state = UD_SNTP_CLIENT_STATE_OPEN
          /\ ClearBit(xsntpAsynchEvent'.SR, exlibSNTP_SOFTSR_RECV_BIT) = xsntpAsynchEvent'.SR
          /\ xsntpAsynchEvent'.timestamp = Zero64
          /\ xsntpAsynchEvent'.event_cb = "NULL"]_vars

(***************************************************************************)
(* C4: after a successful call the record holds the four NTP-format        *)
(* timestamps of the reply (reference, originate, receive, transmit), the  *)
(* converted receive64 and transmit64 and a captured reference64.          *)
(***************************************************************************)
C4_AllFieldsWrittenOnSuccess ==
  Returned(SNTPEX_SUCCESS) =>
    /\ rec.referenceTimestamp = HostOrder(call.reply.referenceTimestamp)
    /\ rec.originateTimestamp = HostOrder(call.reply.originateTimestamp)
    /\ rec.receiveTimestamp = HostOrder(call.reply.receiveTimestamp)
    /\ rec.transmitTimestamp = HostOrder(call.reply.transmitTimestamp)
    /\ rec.receive64_ts = prv_utility_ntp_to_epoch(rec.receiveTimestamp.seconds,
                                                    rec.receiveTimestamp.fraction)
    /\ rec.transmit64_ts = prv_utility_ntp_to_epoch(rec.transmitTimestamp.seconds,
                                                     rec.transmitTimestamp.fraction)
    /\ rec.reference64_ts # Zero64

(***************************************************************************)
(* C5, as claimed: every successful call runs Open, Sending, Receiving,    *)
(* HandlingResponse, Closing and reaches Complete, and leaves the state    *)
(* Open and the descriptor at the sentinel.                                *)
(***************************************************************************)
C5_ClosingOnSuccess ==
  [][ReturnsSuccess
       => /\ call'.trace = << UD_SNTP_CLIENT_STATE_OPEN, UD_SNTP_CLIENT_STATE_SENDING,
                              UD_SNTP_CLIENT_STATE_RECEIVING,
                              UD_SNTP_CLIENT_STATE_HANDLING_RSP,
                              UD_SNTP_CLIENT_STATE_CLOSE, UD_SNTP_CLIENT_STATE_COMPLETE >>
          /\ client'.state = UD_SNTP_CLIENT_STATE_OPEN
          /\ uvirtual_sock'.fd = -1]_vars

(***************************************************************************)
(* C5, amended: every successful call runs Sending, Receiving and          *)
(* HandlingResponse in that order and reaches Complete, after Open when it *)
(* began in the state Open; Closing does not run, and the call leaves the  *)
(* state Sending and the descriptor open.                                  *)
(***************************************************************************)
C5_NoClosingOnSuccess ==
  [][ReturnsSuccess
       => /\ call'.trace \in
               { << UD_SNTP_CLIENT_STATE_OPEN, UD_SNTP_CLIENT_STATE_SENDING,
                    UD_SNTP_CLIENT_STATE_RECEIVING, UD_SNTP_CLIENT_STATE_HANDLING_RSP,
                    UD_SNTP_CLIENT_STATE_COMPLETE >>,
                 << UD_SNTP_CLIENT_STATE_SENDING, UD_SNTP_CLIENT_STATE_RECEIVING,
                    UD_SNTP_CLIENT_STATE_HANDLING_RSP, UD_SNTP_CLIENT_STATE_COMPLETE >> }
          /\ client'.state = UD_SNTP_CLIENT_STATE_SENDING
          /\ uvirtual_sock'.fd \in openFds']_vars

(* a second successful call, begun in the state Sending *)
C5_Witness ==
  /\ Returned(SNTPEX_SUCCESS)
  /\ call.n = 2
  /\ call.trace[1] = UD_SNTP_CLIENT_STATE_SENDING

(***************************************************************************)
(* C6: a call returns Success only if the reply it read has originate      *)
(* seconds 0 and an originate fraction equal to the nonce placed in the    *)
(* transmit fraction of the request sent in this call; any other reply     *)
(* yields InvalidMessage.                                                  *)
(***************************************************************************)
C6_SuccessOnlyForEchoedNonce ==
  /\ Returned(SNTPEX_SUCCESS) =>
       /\ EchoesRequest
       /\ exlibSLNETUTIL_NTOHL(call.sent.transmitTimestamp.fraction) = client.expected_orig_ts
  /\ (ReturnedAfterReply /\ ~ EchoesRequest) => call.ret = SNTPEX_ERR_INVALID_MESSAGE

(* a successful second call, whose nonce differs from the first call's *)
C6_Witness ==
  /\ Returned(SNTPEX_SUCCESS)
  /\ call.n = 2
  /\ EchoesRequest
  /\ client.expected_orig_ts \notin InitTicks

(***************************************************************************)
(* C7: a reply with version 0 yields InvalidMessage whatever its other     *)
(* fields; with stratum 0 it is not RequestRejected and the Kiss code      *)
(* keeps its value.                                                        *)
(***************************************************************************)
C7_VersionZeroIsInvalid ==
  (ReturnedAfterReply /\ call.reply.vn = 0) =>
    /\ call.ret = SNTPEX_ERR_INVALID_MESSAGE
    /\ client.kissCode = call.kiss0

(* a version-0 reply with stratum 0, otherwise valid, seen by the handler *)
C7_Witness ==
  /\ ReturnedAfterReply
  /\ Ran(UD_SNTP_CLIENT_STATE_HANDLING_RSP)
  /\ call.reply.vn = 0
  /\ call.reply.stratum = 0
  /\ call.reply.mode = specNTP_MODE_SERVER
  /\ call.reply.transmitTimestamp # ZeroTimestamp
  /\ EchoesRequest

(***************************************************************************)
(* C8: for a reply that reaches the handler with a non-zero version and a  *)
(* non-zero transmit timestamp: a mode outside {4,5} yields                *)
(* InvalidMessage; mode 4 or 5 with the echoed nonce and stratum > 0       *)
(* yields Success.                                                         *)
(***************************************************************************)
C8_ModeDecides ==
  (/\ ReturnedAfterReply
   /\ Ran(UD_SNTP_CLIENT_STATE_HANDLING_RSP)
   /\ call.reply.vn # 0
   /\ call.reply.transmitTimestamp # ZeroTimestamp) =>
    /\ call.reply.mode \notin {4, 5} => call.ret = SNTPEX_ERR_INVALID_MESSAGE
    /\ (call.reply.mode \in {4, 5} /\ EchoesRequest /\ call.reply.stratum > 0)
         => call.ret = SNTPEX_SUCCESS

(* a broadcast-mode reply accepted *)
C8_Witness ==
  /\ Returned(SNTPEX_SUCCESS)
  /\ call.reply.mode = specNTP_MODE_BROADCAST
  /\ call.reply.stratum > 0

(***************************************************************************)
(* C9, as claimed: a reply shorter than the fixed packet size of 68 bytes  *)
(* yields InvalidMessage and never reaches the handler.                    *)
(***************************************************************************)
C9_ShorterThanMaxSizeIsInvalid ==
  (ReturnedAfterReply /\ call.len < exlibSNTP_TIME_MESSAGE_MAX_SIZE) =>
    /\ call.ret = SNTPEX_ERR_INVALID_MESSAGE
    /\ ~ Ran(UD_SNTP_CLIENT_STATE_HANDLING_RSP)

(***************************************************************************)
(* C9, amended: a reply shorter than the request, sizeof( struct           *)
(* x_sntp_request ) = 48 bytes, yields InvalidMessage, never reaches the   *)
(* handler and leaves the decoded fields of the record alone.              *)
(***************************************************************************)
C9_ShorterThanRequestIsInvalid ==
  (ReturnedAfterReply /\ call.len < SizeofRequest) =>
    /\ call.ret = SNTPEX_ERR_INVALID_MESSAGE
    /\ ~ Ran(UD_SNTP_CLIENT_STATE_HANDLING_RSP)
    /\ rec.receive64_ts = call.rec0.receive64_ts
    /\ rec.transmit64_ts = call.rec0.transmit64_ts
    /\ rec.transmitTimestamp = call.rec0.transmitTimestamp

(* a time reply in good order but one byte short, read in a second call *)
(* that follows a successful one                                       *)
C9_Witness ==
  /\ ReturnedAfterReply
  /\ call.len = SizeofRequest - 1
  /\ call.reply = GoodReply(client.expected_orig_ts, 1)
  /\ call.ret = SNTPEX_ERR_INVALID_MESSAGE
  /\ call.n = 2
  /\ call.rec0.receive64_ts # Canary \o Canary

(***************************************************************************)
(* C10: a reply whose transmit timestamp is zero yields InvalidMessage,    *)
(* also with stratum 0: the test comes before those of the mode, the       *)
(* nonce and the Kiss-of-Death, so the Kiss code keeps its value.          *)
(***************************************************************************)
C10_ZeroTransmitIsInvalid ==
  (ReturnedAfterReply /\ call.reply.transmitTimestamp = ZeroTimestamp) =>
    /\ call.ret = SNTPEX_ERR_INVALID_MESSAGE
    /\ client.kissCode = call.kiss0

(* a stratum-0 reply with a zero transmit timestamp, otherwise valid, after *)
(* a call that stored a Kiss code                                          *)
C10_Witness ==
  /\ ReturnedAfterReply
  /\ Ran(UD_SNTP_CLIENT_STATE_HANDLING_RSP)
  /\ call.reply.transmitTimestamp = ZeroTimestamp
  /\ call.reply.stratum = 0
  /\ call.reply.vn # 0
  /\ call.reply.mode = specNTP_MODE_SERVER
  /\ EchoesRequest
  /\ call.kiss0 # Zero32

(***************************************************************************)
(* C11: a reply that passes the tests of length, version, transmit         *)
(* timestamp, mode and originate timestamp and has stratum 0 yields        *)
(* RequestRejected, and the Kiss code read afterwards is the big-endian    *)
(* value of the four reference-identifier bytes: 0x52415445 for "RATE".    *)
(***************************************************************************)
C11_KissOfDeathIsRejected ==
  (/\ ReturnedAfterReply
   /\ Ran(UD_SNTP_CLIENT_STATE_HANDLING_RSP)
   /\ call.reply.vn # 0
   /\ call.reply.transmitTimestamp # ZeroTimestamp
   /\ call.reply.mode \in {4, 5}
   /\ EchoesRequest
   /\ call.reply.stratum = 0) =>
    /\ call.ret = SNTPEX_ERR_REQUEST_REJECTED
    /\ sntpex_client_Kiss_code_get(FALSE) =
         << call.reply.referenceId[4], call.reply.referenceId[3],
            call.reply.referenceId[2], call.reply.referenceId[1] >>
    /\ call.reply.referenceId = << 82, 65, 84, 69 >>
         => sntpex_client_Kiss_code_get(FALSE) = U32(1380013125)

(* a Kiss-of-Death "RATE" in broadcast mode, rejected *)
C11_Witness ==
  /\ Returned(SNTPEX_ERR_REQUEST_REJECTED)
  /\ call.reply.stratum = 0
  /\ call.reply.mode = specNTP_MODE_BROADCAST
  /\ call.reply.referenceId = << 82, 65, 84, 69 >>
  /\ sntpex_client_Kiss_code_get(FALSE) # Zero32

(***************************************************************************)
(* C12: after a call in which the handler evaluated a response, the Kiss   *)
(* code is non-zero only if that response had stratum 0.                   *)
(***************************************************************************)
C12_KissClearedBeforeEvaluation ==
  (/\ ReturnedAfterReply
   /\ Ran(UD_SNTP_CLIENT_STATE_HANDLING_RSP)
   /\ sntpex_client_Kiss_code_get(FALSE) # Zero32) => call.reply.stratum = 0

(***************************************************************************)
(* C13: with a transport that reports would-block and a tick that keeps    *)
(* advancing, every call eventually returns Timeout; on return the         *)
(* descriptor is the closed sentinel; the next call runs the Open handler  *)
(* and opens a fresh descriptor.                                           *)
(***************************************************************************)
C13_WouldBlockEndsInTimeout ==
  /\ (call.ret = "pending") ~> Returned(SNTPEX_ERR_TIMEOUT)
  /\ [](Returned(SNTPEX_ERR_TIMEOUT) => (uvirtual_sock.fd = -1 /\ openFds = {}))
  /\ []((call.n >= 2 /\ call.trace # << >>)
          => /\ call.trace[1] = UD_SNTP_CLIENT_STATE_OPEN
             /\ (call.ret = "pending" => uvirtual_sock.fd \in openFds))

(* a second call that opened a descriptor, sent, and timed out receiving *)
C13_Witness ==
  /\ Returned(SNTPEX_ERR_TIMEOUT)
  /\ call.n = 2
  /\ call.trace = << UD_SNTP_CLIENT_STATE_OPEN, UD_SNTP_CLIENT_STATE_SENDING,
                     UD_SNTP_CLIENT_STATE_RECEIVING >>
  /\ uvirtual_sock.fd = -1

(***************************************************************************)
(* C14: when a call returns, the ticks elapsed since the entry tick the    *)
(* call recorded are at most the configured timeout plus the latency of    *)
(* one transport call (one tick).                                          *)
(***************************************************************************)
C14_ReturnsWithinTimeout ==
  (pc = "idle" /\ call.ret \notin {"none", "pending"})
    => ~ LessW(U32(client.timeout + 1), Sub32(get_os_tick, client.startTime))

(***************************************************************************)
(* C15: the loop stops at the first handler that returns an error and the  *)
(* call returns that handler's code, whatever the Closing handler reports; *)
(* after the failure no handler runs and nothing is sent; within one call  *)
(* no handler runs twice.                                                  *)
(***************************************************************************)
C15_FirstErrorIsReturned ==
  [][/\ (local.after # "close" /\ local'.after = "close")
          => local'.xLibReturnCode # SNTPEX_SUCCESS
     /\ local.after = "close"
          => /\ call'.trace = call.trace
             /\ call'.sends = call.sends
             /\ IF pc' = "idle"
                THEN call'.ret = local.xLibReturnCode
                ELSE local'.xLibReturnCode = local.xLibReturnCode
     /\ \A i, j \in 1..Len(call'.trace) :
          call'.trace[i] = call'.trace[j] => i = j]_vars

(* a call that failed in the Receiving handler, was closed, returned its code *)
C15_Witness ==
  /\ Returned(SNTPEX_ERR_RX)
  /\ call.trace = << UD_SNTP_CLIENT_STATE_OPEN, UD_SNTP_CLIENT_STATE_SENDING,
                     UD_SNTP_CLIENT_STATE_RECEIVING >>
  /\ call.sends = 1
  /\ uvirtual_sock.fd = -1

C18_UnregisterIsAtomic ==
  [][(pc = "unreg_sr" /\ pc' # "unreg_sr")
       => /\ (xsntpAsynchEvent'.SR \div exlibSNTP_SOFTSR_RECV_BIT) % 2 = 0
          /\ xsntpAsynchEvent'.event_cb = "NULL"
          /\ xsntpAsynchEvent'.timestamp = Zero64]_vars

(***************************************************************************)
(* Exact 64-bit references for the converter, built from additions only.   *)
(***************************************************************************)
RECURSIVE ShiftLeftW(_, _)
ShiftLeftW(w, k) == IF k = 0 THEN w ELSE ShiftLeftW(AddW(w, w, 0), k - 1)

(* w * 1000000 modulo 2^64: 1000000 = 2^19 + 2^18 + 2^17 + 2^16 + 2^14 + 2^9 + 2^6 *)
TimesMillion(w) ==
  AddW(ShiftLeftW(w, 19),
    AddW(ShiftLeftW(w, 18),
      AddW(ShiftLeftW(w, 17),
        AddW(ShiftLeftW(w, 16),
          AddW(ShiftLeftW(w, 14),
            AddW(ShiftLeftW(w, 9), ShiftLeftW(w, 6), 0), 0), 0), 0), 0), 0)

(* the record holds the export of the payload *)
Converted == rec # FilledTimestampCtx(Canary)

(* ((S - 2208988800) * 1000000 + usecs) modulo 2^64 *)
EpochMicros(S, usecs) ==
  AddW(TimesMillion(SubW(Ext64(S), exlibDIFF_SEC_1900_1970, 0)), U64(usecs), 0)

(* floor(F * 1000000 / 2^32): the upper half of the 64-bit product *)
ExactMicros(F) ==
  LET p == TimesMillion(Ext64(F)) IN p[5] + 256 * p[6] + 65536 * p[7]

(***************************************************************************)
(* C19: for the seconds S and the fraction F of a timestamp, the exported  *)
(* 64-bit value is ((S - 2208988800) * 1000000 + usecs(F)) modulo 2^64:    *)
(* wrapped when S < 2208988800, and the product kept on 64 bits.           *)
(***************************************************************************)
C19_EpochIsSixtyFourBit ==
  Converted =>
    /\ rec.transmit64_ts =
         EpochMicros(rec.transmitTimestamp.seconds,
                     prv_utility_frac_to_usecs(rec.transmitTimestamp.fraction))
    /\ rec.receive64_ts =
         EpochMicros(rec.receiveTimestamp.seconds,
                     prv_utility_frac_to_usecs(rec.receiveTimestamp.fraction))
    /\ (rec.transmitTimestamp = NtpTimestamp(<< 71, 143, 170, 131 >>, Zero32)
          => rec.transmit64_ts = << 192, 127, 0, 0, 1, 0, 0, 0 >>)
    /\ (rec.transmitTimestamp = NtpTimestamp(<< 127, 126, 170, 131 >>, Zero32)
          => rec.transmit64_ts = << 192, 189, 240, 255, 255, 255, 255, 255 >>)

(* 4295 s after the epoch (the product passes 2^32) and 1 s before it *)
C19_Witness ==
  /\ Converted
  /\ \/ rec.transmitTimestamp.seconds = << 71, 143, 170, 131 >>
     \/ rec.transmitTimestamp.seconds = << 127, 126, 170, 131 >>
  /\ rec.transmit64_ts[5] # 0

(***************************************************************************)
(* C20: the fraction conversion gives 0 for fraction 0 and 500000 for      *)
(* fraction 2^31, and for every sampled fraction it differs from           *)
(* floor(fraction * 1000000 / 2^32) by at most 1.                          *)
(***************************************************************************)
C20_FractionWithinOneMicrosecond ==
  (Converted /\ rec.transmitTimestamp.seconds = SubSeq(exlibDIFF_SEC_1900_1970, 1, 4))
    => LET F == rec.transmitTimestamp.fraction
           usecs == rec.transmit64_ts[1] + 256 * rec.transmit64_ts[2]
                      + 65536 * rec.transmit64_ts[3]
       IN  /\ SubSeq(rec.transmit64_ts, 4, 8) = << 0, 0, 0, 0, 0 >>
           /\ F = Zero32 => usecs = 0
           /\ F = << 0, 0, 0, 128 >> => usecs = 500000
           /\ usecs - ExactMicros(F) \in {-1, 0, 1}

(* the fraction 0x91B7584A, where the conversion is 1 above the exact value *)
C20_Witness ==
  /\ Converted
  /\ rec.transmitTimestamp = NtpTimestamp(SubSeq(exlibDIFF_SEC_1900_1970, 1, 4),
                                          << 74, 88, 183, 145 >>)
  /\ rec.transmit64_ts = U64(ExactMicros(<< 74, 88, 183, 145 >>) + 1)

(***************************************************************************)
(* C21: the exported 64-bit values are monotonic in the seconds: of two    *)
(* timestamps whose seconds are at or after the epoch offset, the one with *)
(* the smaller seconds never converts to the greater value, whatever the   *)
(* fractions are.                                                          *)
(***************************************************************************)
C21_MonotonicInSeconds ==
  LET D32 == SubSeq(exlibDIFF_SEC_1900_1970, 1, 4)
      S1  == rec.receiveTimestamp.seconds
      S2  == rec.transmitTimestamp.seconds
  IN  (Converted /\ ~ LessW(S1, D32) /\ LessW(S1, S2))
        => ~ LessW(rec.transmit64_ts, rec.receive64_ts)

(* the greatest fraction of one second against fraction 0 of the next *)
C21_Witness ==
  /\ Converted
  /\ rec.receiveTimestamp = NtpTimestamp(SubSeq(exlibDIFF_SEC_1900_1970, 1, 4),
                                         << 255, 255, 255, 255 >>)
  /\ rec.transmitTimestamp = NtpTimestamp(<< 129, 126, 170, 131 >>, Zero32)
  /\ rec.receive64_ts = rec.transmit64_ts

(***************************************************************************)
(* C22: sntpex_clientInitialization with a null handle or a null table     *)
(* returns the null-pointer code and changes nothing; otherwise it returns *)
(* success and leaves every handle field cleared but the socket pointer    *)
(* and the installed table, timeout 3000, state Open, descriptor -1, Kiss  *)
(* code 0, and an event bridge with no bit, no timestamp and no callback.  *)
(***************************************************************************)
C22_InitializationResets ==
  [][\A clientNull, vtableNull \in BOOLEAN :
       sntpex_clientInitialization(clientNull, vtableNull)
         => IF clientNull \/ vtableNull
            THEN /\ InitializationCode(clientNull, vtableNull) = SNTPEX_ERR_NULL_PTR
                 /\ UNCHANGED vars
            ELSE /\ InitializationCode(clientNull, vtableNull) = SNTPEX_SUCCESS
                 /\ client' = [sock |-> "uvirtual_sock", vtable_api |-> "vtable",
                               timeout |-> 3000, startTime |-> Zero32,
                               state |-> UD_SNTP_CLIENT_STATE_OPEN,
                               payload |-> ZeroRequest, payloadLen |-> 0,
                               kissCode |-> Zero32, xTimestampList |-> "NULL",
                               expected_orig_ts |-> Zero32]
                 /\ pg_vtable_api' = "vtable"
                 /\ uvirtual_sock'.fd = -1
                 /\ uvirtual_sock'.tv_sec = 3 /\ uvirtual_sock'.tv_usec = 0
                 /\ xsntpAsynchEvent' = [timestamp |-> Zero64, event_cb |-> "NULL",
                                         SR |-> 0]]_vars

(* an initialisation after a call that had left a Kiss code in the handle *)
C22_Witness ==
  /\ call.ret = SNTPEX_ERR_REQUEST_REJECTED
  /\ pc = "idle"
  /\ client.vtable_api = "vtable"
  /\ client.kissCode = Zero32
  /\ client.timeout = 3000
  /\ uvirtual_sock.fd = -1

(***************************************************************************)
(* C23: sntpex_client_set_server_address with a family that is neither     *)
(* IPv4 nor IPv6 leaves the stored server address, the address length and  *)
(* the state of the handle as they were before the call.                   *)
(***************************************************************************)
C23_OtherFamilyStoresNothing ==
  [][\A family \in Families \ {"AF_INET", "AF_INET6"} :
       (sntpex_client_set_server_address(family) /\ client.sock # "NULL")
         => /\ uvirtual_sock'.sa_family = uvirtual_sock.sa_family
            /\ uvirtual_sock'.InAddLength = uvirtual_sock.InAddLength
            /\ client'.state = client.state]_vars

(***************************************************************************)
(* C24: the timeout stored by sntpex_SetClientTimeout bounds the receive   *)
(* wait of the next call under the blocking strategy too, also when the    *)
(* descriptor is still open from a previous successful call: a receive     *)
(* that ends with would-block has waited no longer than the handle's       *)
(* timeout, and the descriptor holds that timeout in tv_sec and tv_usec.   *)
(***************************************************************************)
C24_TimeoutBoundsTheNextCall ==
  [][RecvFromBlocks
       => /\ ~ LessW(U32(client.timeout), Sub32(tick', tick))
          /\ uvirtual_sock.tv_sec = client.timeout \div 1000
          /\ uvirtual_sock.tv_usec = (client.timeout % 1000) * 1000
          /\ uvirtual_sock.tv_usec < 1000000]_vars

(***************************************************************************)
(* C25: sntpex_client_deinitialization on an initialised handle, whatever  *)
(* calls preceded it, closes the descriptor if it is open and leaves it at *)
(* -1, and leaves every handle field zero with state Open; an              *)
(* initialization that follows gives the handle, the socket and the event  *)
(* bridge the values a first initialization gives.                         *)
(***************************************************************************)
C25_DeinitializationClears ==
  [][/\ sntpex_client_deinitialization
          => /\ client' = [sock |-> "NULL", vtable_api |-> "NULL", timeout |-> 0,
                           startTime |-> Zero32, state |-> UD_SNTP_CLIENT_STATE_OPEN,
                           payload |-> ZeroRequest, payloadLen |-> 0,
                           kissCode |-> Zero32, xTimestampList |-> "NULL",
                           expected_orig_ts |-> Zero32]
             /\ client.sock # "NULL"
                  => /\ uvirtual_sock'.fd = -1
                     /\ openFds' = openFds \ {uvirtual_sock.fd}
     /\ (sntpex_clientInitialization(FALSE, FALSE) /\ client.vtable_api = "NULL")
          => /\ client' = InitializedClient
             /\ uvirtual_sock' = InitializedSocket
             /\ xsntpAsynchEvent' = ZeroEvent
             /\ pg_vtable_api' = "vtable"]_vars

(* a deinitialization after a successful call, which had left the socket open *)
C25_Witness ==
  /\ pc = "idle"
  /\ call.ret = SNTPEX_SUCCESS
  /\ client.vtable_api = "NULL"
  /\ client.sock = "NULL"
  /\ uvirtual_sock.fd = -1
  /\ openFds = {}

(***************************************************************************)
(* C26 as stated: when a call returns, sntpex_client_Kiss_code_get gives   *)
(* the code of the last Kiss-of-Death reply: the code of this call's reply *)
(* if the call was rejected, else the code the handle held at entry.       *)
(***************************************************************************)
C26_KeepsTheLastKissOfDeath ==
  [][Returns
       => sntpex_client_Kiss_code_get(FALSE)' =
            IF call'.ret = SNTPEX_ERR_REQUEST_REJECTED
            THEN exlibSLNETUTIL_NTOHL(call'.reply.referenceId)
            ELSE call'.kiss0]_vars

(***************************************************************************)
(* C26 amended: sntpex_client_Kiss_code_get gives 0 for a null handle;     *)
(* when a call returns it gives the code of this call's reply if the call  *)
(* was rejected, 0 if the call succeeded, else the code the handle held at *)
(* entry; the stored code changes only in the HandlingResponse handler, in *)
(* the initialization and in the deinitialization.                         *)
(***************************************************************************)
C26_KissCodeOfTheLastAcceptedReply ==
  [][/\ sntpex_client_Kiss_code_get(TRUE)' = Zero32
     /\ Returns
          => sntpex_client_Kiss_code_get(FALSE)' =
               IF call'.ret = SNTPEX_ERR_REQUEST_REJECTED
               THEN exlibSLNETUTIL_NTOHL(call'.reply.referenceId)
               ELSE IF call'.ret = SNTPEX_SUCCESS THEN Zero32
               ELSE call'.kiss0
     /\ client'.kissCode # client.kissCode
          => \/ HandlingResponse
             \/ sntpex_clientInitialization(FALSE, FALSE)
             \/ sntpex_client_deinitialization]_vars

(* a successful call on a handle that held a Kiss code at entry *)
C26_Witness ==
  /\ Returned(SNTPEX_SUCCESS)
  /\ call.kiss0 # Zero32
  /\ sntpex_client_Kiss_code_get(FALSE) = Zero32

C28_PayloadLenIsSixtyEight ==
  client.vtable_api # "NULL" => client.payloadLen = exlibSNTP_TIME_MESSAGE_MAX_SIZE

(***************************************************************************)
(* C28 amended: payloadLen of an initialised handle is 0 until the first   *)
(* request is built and 48, the size of the request structure, from then   *)
(* on; it is 48 whenever the task is in the send or the receive of a call, *)
(* and 48 fits the payload buffer.                                         *)
(***************************************************************************)
C28_PayloadLenIsRequestSize ==
  /\ client.vtable_api # "NULL" => client.payloadLen \in {0, 48}
  /\ pc \in {"send_loop", "recv_reg", "recv_loop"} => client.payloadLen = 48
  /\ 48 <= exlibSNTP_TIME_MESSAGE_MAX_SIZE

(* the task waiting for the reply to a request it sent *)
C28_Witness ==
  /\ pc = "recv_loop"
  /\ call.sends = 1
  /\ client.payloadLen = 48

(***************************************************************************)
(* C29: the Sending handler builds the request and captures T1 before it   *)
(* transmits anything, and the transmission leaves T1 alone; a would-block *)
(* before the deadline polls again, a would-block at the deadline gives    *)
(* SNTPEX_ERR_TIMEOUT, any other negative result or a count different from *)
(* the request length gives SNTPEX_ERR_TX, and a full write clears the     *)
(* payload and moves the state to Receiving.                               *)
(***************************************************************************)
C29_SendingHandler ==
  [][ /\ SendRequest =>
           /\ client'.payload = prv_utility_build_request(client, tick).payload
           /\ client'.payload # ZeroRequest
           /\ rec'.originate64_ts = get_unix_timestamp
           /\ call'.sends = call.sends
           /\ client'.state = UD_SNTP_CLIENT_STATE_SENDING
           /\ pc' = "send_loop"
      /\ \A r \in SendResults(client.payloadLen) :
           SendAttempt(r) =>
             /\ rec' = rec
             /\ IF r = SLNETERR_BSD_EAGAIN
                   /\ LessW(Sub32(tick, local.ulTickStart), U32(client.timeout))
                THEN pc' = "send_loop" /\ client' = client /\ call' = call
                ELSE IF r = SLNETERR_BSD_EAGAIN
                THEN /\ local'.xLibReturnCode = SNTPEX_ERR_TIMEOUT
                     /\ local'.after = "close"
                     /\ client' = client /\ call'.sends = call.sends
                ELSE IF r < 0 \/ r # SizeofRequest
                THEN /\ local'.xLibReturnCode = SNTPEX_ERR_TX
                     /\ local'.after = "close"
                     /\ client' = client /\ call'.sends = call.sends
                ELSE /\ client'.payload = ZeroRequest
                     /\ client'.state = UD_SNTP_CLIENT_STATE_RECEIVING
                     /\ call'.sends = call.sends + 1
                     /\ call'.sent = client.payload
                     /\ pc' = "fsm" ]_vars

(* a full write after a poll that would have blocked: T1 is the time before *)
(* the wait, the payload is clear and the state is Receiving                *)
C29_Witness ==
  /\ pc = "fsm"
  /\ call.sends = 1
  /\ client.state = UD_SNTP_CLIENT_STATE_RECEIVING
  /\ client.payload = ZeroRequest
  /\ call.sent # ZeroRequest
  /\ rec.originate64_ts # Zero64
  /\ tick # local.ulTickStart

C31_TimeoutNeverEarly ==
  [][ ( /\ pc \in {"send_loop", "recv_loop"}
        /\ pc' = "unreg_ts"
        /\ local'.xLibReturnCode = SNTPEX_ERR_TIMEOUT ) =>
      /\ SendAttempt(SLNETERR_BSD_EAGAIN) \/ ReceiveNothing(SLNETERR_BSD_EAGAIN)
      /\ ~ LessW(Sub32(tick, local.ulTickStart), U32(client.timeout))
      /\ client.timeout = PollTimeout ]_vars

(* a Receiving handler that gave up after the tick counter wrapped: the *)
(* tick is numerically below the start tick and timeout ticks after it  *)
C31_Witness ==
  /\ pc = "unreg_ts"
  /\ Ran(UD_SNTP_CLIENT_STATE_RECEIVING)
  /\ local.xLibReturnCode = SNTPEX_ERR_TIMEOUT
  /\ LessW(tick, local.ulTickStart)
  /\ Sub32(tick, local.ulTickStart) = U32(PollTimeout)

(***************************************************************************)
(* C32: with a time source that never goes back, a call that returns       *)
(* SNTPEX_SUCCESS leaves reference64_ts (T4) not before originate64_ts     *)
(* (T1), whatever the earlier calls and the interleaving of the ISR.       *)
(***************************************************************************)
C32_ReferenceNotBeforeOriginate ==
  Returned(SNTPEX_SUCCESS) => ~ LessW(rec.reference64_ts, rec.originate64_ts)

(***************************************************************************)
(* C33: once the receive event is registered, the invocation of the ISR    *)
(* side that finds the bit pending clears it, captures the time and        *)
(* returns success; every other invocation finds the status register 0,    *)
(* returns SNTPEX_ERR_FAULT_INIT and leaves the captured timestamp alone.  *)
(***************************************************************************)
C33_OnlyTheFirstInvocationCaptures ==
  [][ (sntpex_eventTriggingFromISR \/ xsntpAsynchEvent'.timestamp \notin
                                        {xsntpAsynchEvent.timestamp, Zero64}) =>
      IF (xsntpAsynchEvent.SR \div exlibSNTP_SOFTSR_RECV_BIT) % 2 = 1
      THEN /\ xsntpAsynchEvent'.SR = 0
           /\ xsntpAsynchEvent'.timestamp = get_unix_timestamp
           /\ xsntpAsynchEvent'.event_cb = xsntpAsynchEvent.event_cb
           /\ IsrReturnCode(pg_vtable_api, xsntpAsynchEvent) = SNTPEX_SUCCESS
      ELSE /\ xsntpAsynchEvent.SR = 0
           /\ xsntpAsynchEvent' = xsntpAsynchEvent
           /\ IsrReturnCode(pg_vtable_api, xsntpAsynchEvent) = SNTPEX_ERR_FAULT_INIT
    ]_vars

(* the task still polls for the reply, the bit is no longer pending and *)
(* the time captured is older than the time source is now               *)
C33_Witness ==
  /\ pc = "recv_loop"
  /\ xsntpAsynchEvent.SR = 0
  /\ xsntpAsynchEvent.timestamp # Zero64
  /\ LessW(xsntpAsynchEvent.timestamp, get_unix_timestamp)
  /\ IsrReturnCode(pg_vtable_api, xsntpAsynchEvent) = SNTPEX_ERR_FAULT_INIT

(***************************************************************************)
(* C34: every step that invokes SlNetSock_close (the Open handler, the     *)
(* Closing handler of the error path and of the deinitialization, each     *)
(* when the stored descriptor is not -1) invokes it on a descriptor that   *)
(* SlNetSock_create returned and that has not been closed since.           *)
(***************************************************************************)
C34_CloseOnlyWhatIsOpen ==
  [][ ( /\ \/ \E created \in CreateFailCodes \cup 0..MaxCalls, optOk \in BOOLEAN :
                OpenConnection(created, optOk)
           \/ UnregisterThenClose
           \/ sntpex_client_deinitialization
        /\ client.sock # "NULL"
        /\ uvirtual_sock.fd # -1 ) =>
      /\ uvirtual_sock.fd >= 0
      /\ uvirtual_sock.fd \in openFds ]_vars

(***************************************************************************)
(* C35: no descriptor is leaked: the stored descriptor is never            *)
(* overwritten or reset to -1 while it is open, so every open descriptor   *)
(* is the stored one and at most one descriptor is open.                   *)
(***************************************************************************)
C35_NoDescriptorLeak ==
  /\ \A d \in openFds : d = uvirtual_sock.fd
  /\ Cardinality(openFds) <= 1

(***************************************************************************)
(* Two handles.  The second handle is memory of the application that this  *)
(* model does not hold; what its initialization shares with the first      *)
(* handle is the library's statics: uvirtual_sock, pg_vtable_api and       *)
(* xsntpAsynchEvent.                                                       *)
(***************************************************************************)
OtherHandleInitialization ==
  /\ pc = "idle"
  /\ uvirtual_sock' = InitializedSocket
  /\ pg_vtable_api' = "vtable"
  /\ xsntpAsynchEvent' =
       prv_utility_unregister_event(
         prv_utility_unregister_event(xsntpAsynchEvent, exlibSNTP_SOFTSR_RECV_BIT),
         exlibSNTP_SOFTSR_SEND_BIT)
  /\ UNCHANGED << client, rec, tick, clock, openFds, pc, local, call, advances >>

NextTwoHandles ==
  \/ \E timeout \in TimeoutChoices : sntpex_SetClientTimeout(timeout)
  \/ \E family \in Families : sntpex_client_set_server_address(family)
  \/ sntpex_client_timestamp_get(FALSE, FALSE)
  \/ \E created \in 0..MaxCalls : OpenConnection(created, TRUE)
  \/ SendAny({client.payloadLen})
  \/ ReceiveAny(FewReplies(client.expected_orig_ts))
  \/ TaskStep
  \/ sntpex_eventTriggingFromISR
  \/ OtherHandleInitialization

SpecTwoHandles == InitExchange /\ [][NextTwoHandles]_vars

(***************************************************************************)
(* C36: each handle owns its transport: the initialization of a second     *)
(* handle leaves the descriptor, the server address and the timeout option *)
(* of the first handle as they were.                                       *)
(***************************************************************************)
C36_OtherHandleLeavesTransportAlone ==
  [][ OtherHandleInitialization =>
        /\ uvirtual_sock'.fd = uvirtual_sock.fd
        /\ uvirtual_sock'.sa_family = uvirtual_sock.sa_family
        /\ uvirtual_sock'.InAddLength = uvirtual_sock.InAddLength
        /\ uvirtual_sock'.tv_sec = uvirtual_sock.tv_sec
        /\ uvirtual_sock'.tv_usec = uvirtual_sock.tv_usec ]_vars

(***************************************************************************)
(* C37: between two public calls the state of the handle is Open or        *)
(* Sending; Sending implies that the stored descriptor is open; and every  *)
(* state the driving loop dispatches on is an index of the five-entry      *)
(* handler table, never Complete.                                          *)
(***************************************************************************)
C37_StatesBetweenCallsAndInTheLoop ==
  /\ pc = "idle" =>
       /\ client.state \in {UD_SNTP_CLIENT_STATE_OPEN, UD_SNTP_CLIENT_STATE_SENDING}
       /\ client.state = UD_SNTP_CLIENT_STATE_SENDING =>
            /\ client.sock # "NULL"
            /\ uvirtual_sock.fd >= 0
            /\ uvirtual_sock.fd \in openFds
  /\ pc = "fsm" =>
       /\ client.state \in 0..(UD_SNTP_CLIENT_STATE_COMPLETE - 1)
       /\ client.state # UD_SNTP_CLIENT_STATE_CLOSE

(* after a second call, a successful one: Sending, with the descriptor open *)
C37_Witness ==
  /\ Returned(SNTPEX_SUCCESS)
  /\ call.n = 2
  /\ client.state = UD_SNTP_CLIENT_STATE_SENDING
  /\ uvirtual_sock.fd \in openFds
  /\ ~ Ran(UD_SNTP_CLIENT_STATE_OPEN)

(***************************************************************************)
(* C38: sntpex_client_timestamp_get on a handle that was initialised and   *)
(* then deinitialised reaches the Open handler without a call through the  *)
(* cleared table of the time source, and leaves the record alone.          *)
(***************************************************************************)
C38_DeinitializedHandleReachesOpen ==
  [][ ( /\ sntpex_client_timestamp_get(FALSE, FALSE)
        /\ pg_vtable_api # "NULL"
        /\ client.vtable_api = "NULL"
        /\ client.sock = "NULL" ) =>
      /\ pc' = "fsm"
      /\ client'.state = UD_SNTP_CLIENT_STATE_OPEN
      /\ rec' = rec ]_vars

(***************************************************************************)
(* C39: prv_utility_frac_to_usecs returns less than 1000000 for every      *)
(* fraction, so the microseconds of a converted timestamp never carry      *)
(* into its seconds.                                                       *)
(***************************************************************************)
C39_MicrosecondsBelowOneSecond ==
  Converted =>
    /\ prv_utility_frac_to_usecs(rec.transmitTimestamp.fraction) < 1000000
    /\ prv_utility_frac_to_usecs(rec.receiveTimestamp.fraction) < 1000000

(* the task has made no call yet, or is in its first call and has not yet *)
(* set the receive bit                                                    *)
BeforeTheFirstRegistration ==
  \/ call.n = 0
  \/ /\ call.n = 1
     /\ call.ret = "pending"
     /\ \/ pc \in {"send_loop", "recv_reg"}
        \/ /\ pc = "fsm"
           /\ client.state \in {UD_SNTP_CLIENT_STATE_OPEN, UD_SNTP_CLIENT_STATE_SENDING,
                                UD_SNTP_CLIENT_STATE_RECEIVING}

(***************************************************************************)
(* C40: when the library is not initialised or the status register is 0,   *)
(* the ISR side returns SNTPEX_ERR_FAULT_INIT, invokes no callback and     *)
(* changes nothing; every capture of a time is made by an invocation that  *)
(* found the library initialised and an event pending; so, until the       *)
(* Receiving handler has registered the receive event for the first time,  *)
(* no time is captured and T4 is not written.                              *)
(***************************************************************************)
C40_IsrWithoutEventChangesNothing ==
  /\ [][ /\ ( /\ sntpex_eventTriggingFromISR
              /\ pg_vtable_api = "NULL" \/ xsntpAsynchEvent.SR = 0 ) =>
              /\ xsntpAsynchEvent' = xsntpAsynchEvent
              /\ rec' = rec
              /\ IsrReturnCode(pg_vtable_api, xsntpAsynchEvent) = SNTPEX_ERR_FAULT_INIT
              /\ IsrCallback(pg_vtable_api, xsntpAsynchEvent) = 0
         /\ xsntpAsynchEvent'.timestamp \notin {xsntpAsynchEvent.timestamp, Zero64} =>
              /\ pg_vtable_api # "NULL"
              /\ xsntpAsynchEvent.SR # 0
              /\ IsrReturnCode(pg_vtable_api, xsntpAsynchEvent) = SNTPEX_SUCCESS ]_vars
  /\ [](BeforeTheFirstRegistration =>
          /\ xsntpAsynchEvent.timestamp = Zero64
          /\ rec.reference64_ts = FilledTimestampCtx(Canary).reference64_ts
          /\ IsrReturnCode(pg_vtable_api, xsntpAsynchEvent) = SNTPEX_ERR_FAULT_INIT)

(* the first call is about to set the receive bit, time has passed since *)
(* the call began and nothing was captured                               *)
C40_Witness ==
  /\ call.n = 1
  /\ pc = "recv_reg"
  /\ LessW(rec.originate64_ts, get_unix_timestamp)
  /\ xsntpAsynchEvent.timestamp = Zero64
  /\ IsrReturnCode(pg_vtable_api, xsntpAsynchEvent) = SNTPEX_ERR_FAULT_INIT

====
